---- MODULE Spec2Model ----
(***************************************************************************)
(* Verification model of the Spirit core: Data::Geometry (lattice          *)
(* construction, dimensionality, triangulation/tetrahedra cache, pinning)  *)
(* and the CUDA backend of Engine::Vectormath (reductions, fused field     *)
(* operations).                                                            *)
(*                                                                         *)
(* Numbers.  Real quantities are modelled by integers.  Bravais vectors    *)
(* have integer components.  Fractional basis coordinates are given in     *)
(* units of 1/Den, so a position is stored multiplied by Den.  The         *)
(* tolerance 1e-6 of the source is 1/EpsInv.  Field indices are the        *)
(* 0-based indices of the source; a field is a function on 0..n-1.         *)
(***************************************************************************)
EXTENDS Integers, Sequences, FiniteSets, TLC

\* ------------------------------------------------------------------ bounds
\* resolution of fractional basis coordinates (cell_atoms are multiples of 1/Den)
Den == 2
\* largest n_cell_step a caller passes to triangulation() / tetrahedra()
MaxStep == 3
\* longest field handed to a Vectormath operation
MaxN == 18
\* longest field handed to the fused / mismatched-length operations
MaxLen == 2
\* longest fields handed to the reduction dot(vf1, vf2)
MaxDotLen == 3
\* largest number of cells along an axis of the lattices the queries run on
MaxCells == 4

\* ------------------------------------------------------- program constants
\* const scalar epsilon = 1e-6
EpsInv == 1000000
\* std::min(10, n_cells[d]) : the search window of the coincidence check
CheckWindow == 10
\* concentrations and random values are given in units of 1/ConcDen
ConcDen == 2
\* sites of the field handed to get_random_vectorfield_unitsphere
MaxXi == 2
\* threads of an OpenMP team
OmpThreads == 2
\* The launch geometry of the CUDA reductions, scaled down so that a grid can
\* be enumerated; the relations the kernels rely on are kept:
\*   warpSize = 32   -> 4    (a power of two)
\*   threads  = 512  -> 8    (a multiple of warpSize, threads/warpSize < warpSize)
\*   1024 blocks cap -> 2
\*   <<<1, 1024>>>   -> 16   (= warpSize * warpSize, the second-level launch)
warpSize == 4
threads == 8
maxBlocks == 2
threads2 == 16

\* ------------------------------------------------------------ vector algebra
Abs(x) == IF x < 0 THEN -x ELSE x
Min2(a, b) == IF a < b THEN a ELSE b
Max2(a, b) == IF a > b THEN a ELSE b

Zero3 == <<0, 0, 0>>
VAdd(u, v) == <<u[1] + v[1], u[2] + v[2], u[3] + v[3]>>
VSub(u, v) == <<u[1] - v[1], u[2] - v[2], u[3] - v[3]>>
VScale(c, u) == <<c * u[1], c * u[2], c * u[3]>>
Dot3(u, v) == u[1] * v[1] + u[2] * v[2] + u[3] * v[3]
Cross3(u, v) == <<u[2] * v[3] - u[3] * v[2],
                  u[3] * v[1] - u[1] * v[3],
                  u[1] * v[2] - u[2] * v[1]>>
Norm2(u) == Dot3(u, u)

\* std::abs(u.normalized().dot(v.normalized())) - 1 < epsilon, for integer
\* vectors: with X = (u.v)^2 and P = |u|^2 |v|^2 this is X < (1+eps)^2 P.
\* X <= P settles it at once; otherwise (X-P) * EpsInv <= 2P (P*eps < 1).
\* A zero vector normalises to NaN and every comparison with NaN is false.
AbsCosMinusOneLtEps(u, v) ==
    LET X == Dot3(u, v) * Dot3(u, v)
        P == Norm2(u) * Norm2(v)
    IN  /\ P > 0
        /\ IF X <= P THEN TRUE ELSE (X - P) * EpsInv <= 2 * P

\* std::abs(u.normalized().dot(v.normalized())) < epsilon, for integer vectors:
\* X * EpsInv^2 < P, computed by division to stay within machine integers.
AbsCosLtEps(u, v) ==
    LET X == Dot3(u, v) * Dot3(u, v)
        P == Norm2(u) * Norm2(v)
    IN  /\ P > 0
        /\ X <= ((P - 1) \div EpsInv) \div EpsInv

\* ----------------------------------------------------------------- get_filter
\* get_filter(position, r_cut_rectangular, r_cut_cylindrical, r_cut_spherical,
\* inverted): the closure it returns, as the record of what the lambda
\* captures.  The no_cut flags are evaluated here.  r_cut_rectangular is a
\* pointer to the caller's array; every caller applies the filter while the
\* array is alive and unchanged, so the closure holds the array's values.
get_filter(position, r_cut_rectangular, r_cut_cylindrical, r_cut_spherical, inverted) ==
    [position             |-> position,
     r_cut_rectangular    |-> r_cut_rectangular,
     r_cut_cylindrical    |-> r_cut_cylindrical,
     r_cut_spherical      |-> r_cut_spherical,
     no_cut_rectangular_x |-> r_cut_rectangular[1] < 0,
     no_cut_rectangular_y |-> r_cut_rectangular[2] < 0,
     no_cut_rectangular_z |-> r_cut_rectangular[3] < 0,
     no_cut_cylindrical   |-> r_cut_cylindrical < 0,
     no_cut_spherical     |-> r_cut_spherical < 0,
     inverted             |-> inverted]

\* std::sqrt(x2) < c for integers: false for c <= 0, else x2 < c*c
SqrtLt(x2, c) == c > 0 /\ x2 < c * c

\* A faulty variant, for testing what the properties below detect: the filter with "<=" in its comparisons
FilterAccepts_nonStrict(filter, spin_pos) ==
    LET r_rectangular == VSub(spin_pos, filter.position)
        inside ==
            /\ (filter.no_cut_rectangular_x
                   \/ Abs(r_rectangular[1]) <= filter.r_cut_rectangular[1])
            /\ (filter.no_cut_rectangular_y
                   \/ Abs(r_rectangular[2]) <= filter.r_cut_rectangular[2])
            /\ (filter.no_cut_rectangular_z
                   \/ Abs(r_rectangular[3]) <= filter.r_cut_rectangular[3])
            /\ (filter.no_cut_cylindrical
                   \/ SqrtLt(r_rectangular[1] * r_rectangular[1]
                             + r_rectangular[2] * r_rectangular[2],
                             filter.r_cut_cylindrical + 1))
            /\ (filter.no_cut_spherical
                   \/ SqrtLt(Norm2(r_rectangular), filter.r_cut_spherical + 1))
    IN  IF filter.inverted THEN ~inside ELSE inside

\* The closure applied to a site at spin_pos (its first argument, the spin, is
\* not used): the lambda of the branch "if (!inverted)" or of the else branch.
FilterAccepts(filter, spin_pos) ==
    LET r_rectangular == VSub(spin_pos, filter.position)
        r_cylindrical2 == r_rectangular[1] * r_rectangular[1]
                          + r_rectangular[2] * r_rectangular[2]
        r_spherical2 == Norm2(r_rectangular)
        inside ==
            /\ (filter.no_cut_rectangular_x
                   \/ Abs(r_rectangular[1]) < filter.r_cut_rectangular[1])
            /\ (filter.no_cut_rectangular_y
                   \/ Abs(r_rectangular[2]) < filter.r_cut_rectangular[2])
            /\ (filter.no_cut_rectangular_z
                   \/ Abs(r_rectangular[3]) < filter.r_cut_rectangular[3])
            /\ (filter.no_cut_cylindrical
                   \/ SqrtLt(r_cylindrical2, filter.r_cut_cylindrical))
            /\ (filter.no_cut_spherical
                   \/ SqrtLt(r_spherical2, filter.r_cut_spherical))
    IN  IF filter.inverted THEN ~inside ELSE inside

\* ------------------------------------------------------------ Data::Geometry
\* A geometry specification g (the constructor's arguments) is a record
\*   bravais_vectors : three integer vectors
\*   n_cells         : <<Na, Nb, Nc>>
\*   cell_atoms      : sequence of basis positions, in units of 1/Den
\*   cell_composition: [disordered, iatom, atom_type, mu_s, concentration]
\*   lattice_constant: integer
\*   pinning         : [na_left, na_right, nb_left, nb_right, nc_left, nc_right,
\*                      pinned_cell, sites, spins]
\*   defects         : [sites, types]
\* Source index i (0-based) of a std::vector is element i+1 of the sequence.
At(s, i) == s[i + 1]

n_cell_atoms(g) == Len(g.cell_atoms)
nos(g) == Len(g.cell_atoms) * g.n_cells[1] * g.n_cells[2] * g.n_cells[3]
n_cells_total(g) == g.n_cells[1] * g.n_cells[2] * g.n_cells[3]

\* lattice_constant * ( (da + atom[0]) * bravais[0] + (db + atom[1]) * bravais[1]
\*                    + (dc + atom[2]) * bravais[2] ),  multiplied by Den
LatticePosition(g, atom, da, db, dc) ==
    VScale(g.lattice_constant,
           VAdd(VAdd(VScale(da * Den + atom[1], g.bravais_vectors[1]),
                     VScale(db * Den + atom[2], g.bravais_vectors[2])),
                VScale(dc * Den + atom[3], g.bravais_vectors[3])))

\* std::abs(diff[d]) < epsilon for a difference of fractional coordinates
\* (diff holds the difference multiplied by Den)
FracLtEps(x) == Abs(x) * EpsInv < Den

\* A faulty variant, for testing what the properties below detect: the coincidence check for translated atoms only
CoincidenceThrows_translatedOnly(g) ==
    LET max_a == Min2(CheckWindow, g.n_cells[1])
        max_b == Min2(CheckWindow, g.n_cells[2])
        max_c == Min2(CheckWindow, g.n_cells[3])
    IN  \E i \in 0..(n_cell_atoms(g) - 1), j \in 0..(n_cell_atoms(g) - 1) :
        \E da \in (-max_a)..max_a, db \in (-max_b)..max_b, dc \in (-max_c)..max_c :
            LET diff == VSub(At(g.cell_atoms, i),
                             VAdd(At(g.cell_atoms, j), VScale(Den, <<da, db, dc>>)))
            IN  /\ (da # 0 \/ db # 0 \/ dc # 0)
                /\ FracLtEps(diff[1])
                /\ FracLtEps(diff[2])
                /\ FracLtEps(diff[3])

\* The first loop nest of generatePositions: TRUE iff spirit_throw is reached.
CoincidenceThrows(g) ==
    LET max_a == Min2(CheckWindow, g.n_cells[1])
        max_b == Min2(CheckWindow, g.n_cells[2])
        max_c == Min2(CheckWindow, g.n_cells[3])
    IN  \E i \in 0..(n_cell_atoms(g) - 1), j \in 0..(n_cell_atoms(g) - 1) :
        \E da \in (-max_a)..max_a, db \in (-max_b)..max_b, dc \in (-max_c)..max_c :
            LET diff == VSub(At(g.cell_atoms, i),
                             VAdd(At(g.cell_atoms, j), VScale(Den, <<da, db, dc>>)))
            IN  /\ (i # j \/ da # 0 \/ db # 0 \/ dc # 0)
                /\ FracLtEps(diff[1])
                /\ FracLtEps(diff[2])
                /\ FracLtEps(diff[3])

\* ispin = iatom + dc*N*Nb*Na + db*N*Na + da*N
SpinIndex(g, iatom, da, db, dc) ==
    iatom + dc * n_cell_atoms(g) * g.n_cells[2] * g.n_cells[1]
          + db * n_cell_atoms(g) * g.n_cells[1]
          + da * n_cell_atoms(g)

\* The second loop nest of generatePositions: positions[ispin] is written for
\* every (dc, db, da, iatom) of the loops, at the index the loop body computes.
GeneratedPositions(g) ==
    LET Loop == (0..(n_cell_atoms(g) - 1)) \X (0..(g.n_cells[1] - 1))
                \X (0..(g.n_cells[2] - 1)) \X (0..(g.n_cells[3] - 1))
    IN  [ispin \in {SpinIndex(g, w[1], w[2], w[3], w[4]) : w \in Loop} |->
            LET w == CHOOSE w \in Loop : SpinIndex(g, w[1], w[2], w[3], w[4]) = ispin
            IN  LatticePosition(g, At(g.cell_atoms, w[1]), w[2], w[3], w[4])]

\* positions holds the entries that have been written: vectorfield(nos) leaves
\* them uninitialised, and the throw leaves generatePositions before the
\* second loop nest.
generatePositions(g) ==
    IF CoincidenceThrows(g)
    THEN [threw |-> TRUE,  positions |-> <<>>]
    ELSE [threw |-> FALSE, positions |-> GeneratedPositions(g)]

SetMin(S) == CHOOSE x \in S : \A y \in S : x <= y
SetMax(S) == CHOOSE x \in S : \A y \in S : x >= y

\* calculateBounds: both corners start at zero and are moved by the positions.
\* Result [min, max], in units of 1/Den.
calculateBounds(positions) ==
    [min |-> [dim \in 1..3 |-> SetMin({0} \cup {positions[i][dim] : i \in DOMAIN positions})],
     max |-> [dim \in 1..3 |-> SetMax({0} \cup {positions[i][dim] : i \in DOMAIN positions})]]

\* calculateUnitCellBounds: the +-1 translation neighbours of every basis atom,
\* both corners starting at zero.  The final "*= 0.5" is kept in the unit:
\* the result is in units of 1/(2*Den).
calculateUnitCellBounds(g, positions) ==
    LET nb == UNION {{VAdd(positions[iatom], VScale(Den * g.lattice_constant, g.bravais_vectors[ivec])),
                      VSub(positions[iatom], VScale(Den * g.lattice_constant, g.bravais_vectors[ivec]))}
                     : iatom \in 0..(n_cell_atoms(g) - 1), ivec \in 1..3}
    IN  [min |-> [dim \in 1..3 |-> SetMin({0} \cup {v[dim] : v \in nb})],
         max |-> [dim \in 1..3 |-> SetMax({0} \cup {v[dim] : v \in nb})]]

\* std::abs(w.dot(u.cross(v))) < epsilon for the normalised w, u, v
\* (the cross product itself is not normalised in the source)
AbsTripleLtEps(w, u, v) ==
    LET T == Dot3(w, Cross3(u, v))
        P == Norm2(w) * Norm2(u) * Norm2(v)
    IN  /\ P > 0
        /\ T * T <= ((P - 1) \div EpsInv) \div EpsInv

\* The basis part of calculateDimensionality.
\* Result [dims, vec, done]: done means "dimensionality = 3; return".
BasisDimensionality(g, positions) ==
    LET n == n_cell_atoms(g)
    IN  IF n = 1 THEN [dims |-> 0, vec |-> Zero3, done |-> FALSE]
        ELSE IF n = 2
        THEN [dims |-> 1, vec |-> VSub(positions[0], positions[1]), done |-> FALSE]
        ELSE
          LET \* b_vectors[i-1] = (positions[i] - v0).normalized(), i = 1..n-1
              b_vectors == [k \in 0..(n - 2) |-> VSub(positions[k + 1], positions[0])]
              size == n - 1
              par(i) == AbsCosMinusOneLtEps(b_vectors[i], b_vectors[0])
              \* the loop counts until the first vector that is not parallel
              n_parallel == CHOOSE k \in 0..(size - 1) :
                                /\ \A i \in 1..k : par(i)
                                /\ (k = size - 1 \/ ~par(k + 1))
          IN  IF n_parallel = size - 1
              THEN [dims |-> 1, vec |-> b_vectors[0], done |-> FALSE]
              ELSE
                LET normal == Cross3(b_vectors[0], b_vectors[n_parallel + 1])
                    n_in_plane == Cardinality({i \in 2..(size - 1) :
                                      AbsTripleLtEps(b_vectors[i], b_vectors[0],
                                                     b_vectors[n_parallel + 1])})
                IN  IF n_in_plane = size - 2
                    THEN [dims |-> 2, vec |-> normal, done |-> FALSE]
                    ELSE [dims |-> 3, vec |-> normal, done |-> TRUE]

\* A faulty variant, for testing what the properties below detect: a pair of axes counted only when its two Bravais vectors are linearly independent
TranslationsDimensionality_independentOnly(g) ==
    LET bv == g.bravais_vectors
        nc == g.n_cells
        ind(u, v) == LET X == Dot3(u, v) * Dot3(u, v)
                         P == Norm2(u) * Norm2(v)
                     IN  X < P /\ (P - X) * EpsInv > 2 * P
        n_independent_pairs ==
              (IF ind(bv[1], bv[2]) /\ nc[1] > 1 /\ nc[2] > 1 THEN 1 ELSE 0)
            + (IF ind(bv[1], bv[3]) /\ nc[1] > 1 /\ nc[3] > 1 THEN 1 ELSE 0)
            + (IF ind(bv[2], bv[3]) /\ nc[2] > 1 /\ nc[3] > 1 THEN 1 ELSE 0)
        used == {i \in 1..3 : nc[i] > 1}
    IN  IF nc[1] = 1 /\ nc[2] = 1 /\ nc[3] = 1
        THEN [dims |-> 0, vec |-> Zero3, done |-> FALSE]
        ELSE IF n_independent_pairs = 0
        THEN [dims |-> 1, vec |-> bv[SetMax(used)], done |-> FALSE]
        ELSE IF n_independent_pairs < 3
        THEN LET p0 == SetMin(used)
                 p1 == SetMin(used \ {p0})
             IN  [dims |-> 2, vec |-> Cross3(bv[p0], bv[p1]), done |-> FALSE]
        ELSE [dims |-> 3, vec |-> Zero3, done |-> TRUE]

\* The translations part of calculateDimensionality.
TranslationsDimensionality(g) ==
    LET bv == g.bravais_vectors
        nc == g.n_cells
        t01 == AbsCosMinusOneLtEps(bv[1], bv[2])
        t02 == AbsCosMinusOneLtEps(bv[1], bv[3])
        t12 == AbsCosMinusOneLtEps(bv[2], bv[3])
        n_independent_pairs ==
              (IF t01 /\ nc[1] > 1 /\ nc[2] > 1 THEN 1 ELSE 0)
            + (IF t02 /\ nc[1] > 1 /\ nc[3] > 1 THEN 1 ELSE 0)
            + (IF t12 /\ nc[2] > 1 /\ nc[3] > 1 THEN 1 ELSE 0)
        used == {i \in 1..3 : nc[i] > 1}
    IN  IF nc[1] = 1 /\ nc[2] = 1 /\ nc[3] = 1
        THEN [dims |-> 0, vec |-> Zero3, done |-> FALSE]
        ELSE IF n_independent_pairs = 0
        THEN \* the last axis with more than one cell
             [dims |-> 1, vec |-> bv[SetMax(used)], done |-> FALSE]
        ELSE IF n_independent_pairs < 3
        THEN \* plane[0], plane[1]: the first two axes with more than one cell
             LET p0 == SetMin(used)
                 p1 == SetMin(used \ {p0})
             IN  [dims |-> 2, vec |-> Cross3(bv[p0], bv[p1]), done |-> FALSE]
        ELSE [dims |-> 3, vec |-> Zero3, done |-> TRUE]

\* calculateDimensionality
calculateDimensionality(g, positions) ==
    LET b == BasisDimensionality(g, positions)
    IN  IF b.done THEN 3
        ELSE
          LET t == TranslationsDimensionality(g)
          IN  IF t.done THEN 3
              ELSE IF b.dims = 0 THEN t.dims
              ELSE IF t.dims = 0 THEN b.dims
              ELSE IF b.dims = t.dims
              THEN IF AbsCosMinusOneLtEps(b.vec, t.vec) THEN b.dims
                   ELSE IF b.dims = 1 THEN 2
                   ELSE 3
              ELSE IF AbsCosLtEps(b.vec, t.vec) THEN 2
                   ELSE 3

\* Engine::Vectormath::idx_from_translations(n_cells, n_cell_atoms, translations)
idx_from_translations(g, translations) ==
      translations[1] * n_cell_atoms(g)
    + translations[2] * n_cell_atoms(g) * g.n_cells[1]
    + translations[3] * n_cell_atoms(g) * g.n_cells[1] * g.n_cells[2]

\* The defaults the constructor assigns before applyCellComposition:
\* atom_types 0, mu_s 1, mask_unpinned 1, mask_pinned_cells {0,0,0};
\* nos_nonvacant is initialised to nos in the member initialiser list.
\* visited is the local std::vector<bool> of applyCellComposition and n_draws
\* the number of values taken from the generator; won records the sites at
\* which a composition entry was applied.
DefaultSites(g) ==
    [atom_types        |-> [i \in 0..(nos(g) - 1) |-> 0],
     mu_s              |-> [i \in 0..(nos(g) - 1) |-> 1],
     mask_unpinned     |-> [i \in 0..(nos(g) - 1) |-> 1],
     mask_pinned_cells |-> [i \in 0..(nos(g) - 1) |-> Zero3],
     nos_nonvacant     |-> nos(g),
     visited           |-> {},
     n_draws           |-> 0,
     won               |-> {}]

\* Pinning of boundary layers: the condition of the innermost if
InBoundaryLayer(g, na, nb, nc) ==
    \/ (na < g.pinning.na_left \/ na >= g.n_cells[1] - g.pinning.na_right)
    \/ (nb < g.pinning.nb_left \/ nb >= g.n_cells[2] - g.pinning.nb_right)
    \/ (nc < g.pinning.nc_left \/ nc >= g.n_cells[3] - g.pinning.nc_right)

\* One pass of the body of the icomposition loop of applyCellComposition, for
\* cell (na, nb, nc) and composition entry ic.  stream[k] is the k-th value
\* that distribution(prng) returns for std::mt19937(2006), in units of
\* 1/ConcDen like the concentrations.
CompositionStep(g, stream, st, na, nb, nc, ic) ==
    LET cc    == g.cell_composition
        N     == n_cell_atoms(g)
        iatom == At(cc.iatom, ic)
        vis0  == IF ic = 0 THEN {} ELSE st.visited   \* std::fill(visited, false)
        ispin == N * na + N * g.n_cells[1] * nb + N * g.n_cells[1] * g.n_cells[2] * nc + iatom
        draws == cc.disordered
        taken == IF draws THEN stream[st.n_draws] <= At(cc.concentration, ic) ELSE TRUE
        pin   == InBoundaryLayer(g, na, nb, nc)
    IN  IF iatom \in vis0 THEN [st EXCEPT !.visited = vis0]
        ELSE [atom_types    |-> IF taken THEN [st.atom_types EXCEPT ![ispin] = At(cc.atom_type, ic)]
                                ELSE st.atom_types,
              mu_s          |-> IF taken THEN [st.mu_s EXCEPT ![ispin] = At(cc.mu_s, ic)]
                                ELSE st.mu_s,
              mask_unpinned |-> IF pin THEN [st.mask_unpinned EXCEPT ![ispin] = 0]
                                ELSE st.mask_unpinned,
              mask_pinned_cells |-> IF pin THEN [st.mask_pinned_cells EXCEPT
                                                   ![ispin] = At(g.pinning.pinned_cell, iatom)]
                                    ELSE st.mask_pinned_cells,
              nos_nonvacant |-> IF taken /\ At(cc.atom_type, ic) < 0
                                THEN st.nos_nonvacant - 1 ELSE st.nos_nonvacant,
              visited       |-> IF taken THEN vis0 \cup {iatom} ELSE vis0,
              n_draws       |-> IF draws THEN st.n_draws + 1 ELSE st.n_draws,
              won           |-> IF taken THEN st.won \cup {ispin} ELSE st.won]

\* The loops of applyCellComposition in their order (na outermost, then nb,
\* nc, icomposition innermost).  The passes are numbered from 0;
\* CompositionLoop makes the passes lo .. hi-1, the first half of them
\* completed before the second half begins.
RECURSIVE CompositionLoop(_, _, _, _, _)
CompositionLoop(g, stream, st, lo, hi) ==
    LET ncomp == Len(g.cell_composition.iatom)
    IN  IF hi <= lo THEN st
        ELSE IF hi = lo + 1
        THEN LET ic   == lo % ncomp
                 cell == lo \div ncomp
                 nc   == cell % g.n_cells[3]
                 nb   == (cell \div g.n_cells[3]) % g.n_cells[2]
                 na   == cell \div (g.n_cells[3] * g.n_cells[2])
             IN  CompositionStep(g, stream, st, na, nb, nc, ic)
        ELSE LET mid   == (lo + hi) \div 2
                 first == CompositionLoop(g, stream, st, lo, mid)
             IN  IF first.n_draws >= 0
                 THEN CompositionLoop(g, stream, first, mid, hi)
                 ELSE first

\* applyCellComposition: in the disordered case atom_types is first reset to -1
applyCellComposition(g, stream, st) ==
    CompositionLoop(g, stream,
        IF g.cell_composition.disordered
        THEN [st EXCEPT !.atom_types = [i \in 0..(nos(g) - 1) |-> -1]]
        ELSE st,
        0,
        g.n_cells[1] * g.n_cells[2] * g.n_cells[3] * Len(g.cell_composition.iatom))

\* "Apply additional pinned sites": the first k entries of pinning.sites
RECURSIVE ApplyPinnedSites(_, _, _)
ApplyPinnedSites(g, st, k) ==
    IF k = 0 THEN st
    ELSE LET prev  == ApplyPinnedSites(g, st, k - 1)
             site  == g.pinning.sites[k]
             ispin == site.i + idx_from_translations(g, site.translations)
         IN  [prev EXCEPT !.mask_unpinned[ispin] = 0,
                          !.mask_pinned_cells[ispin] = g.pinning.spins[k]]

\* "Apply additional defect sites": the first k entries of defects.sites
RECURSIVE ApplyDefectSites(_, _, _)
ApplyDefectSites(g, st, k) ==
    IF k = 0 THEN st
    ELSE LET prev  == ApplyDefectSites(g, st, k - 1)
             site  == g.defects.sites[k]
             ispin == site.i + idx_from_translations(g, site.translations)
         IN  [prev EXCEPT !.atom_types[ispin] = g.defects.types[k],
                          !.mu_s[ispin] = 0]

\* The body of the constructor from "Generate default atom_types, mu_s and
\* pinning masks" to "Apply additional defect sites"
ConstructedSites(g, stream) ==
    ApplyDefectSites(g,
        ApplyPinnedSites(g,
            applyCellComposition(g, stream, DefaultSites(g)),
            Len(g.pinning.sites)),
        Len(g.defects.sites))

\* calculateGeometryType.  The result is the set of values classifier can hold
\* afterwards: the function assigns nothing when the single-atom branch finds
\* Bravais vectors 0,1 or 0,2 not orthogonal, and the member has no other
\* initialisation in the constructor, so any enumerator may be read back.
\* "n0 == n1 == n2" compares the bool (n0 == n1) with the norm n2.
BravaisLatticeTypes == {"Irregular", "Rectilinear", "SC"}
calculateGeometryType(g) ==
    LET bv == g.bravais_vectors
        eq01 == Norm2(bv[1]) = Norm2(bv[2])
    IN  IF Len(g.cell_atoms) = 1
        THEN IF AbsCosLtEps(bv[1], bv[2]) /\ AbsCosLtEps(bv[1], bv[3])
             THEN IF (eq01 /\ Norm2(bv[3]) = 1) \/ (~eq01 /\ Norm2(bv[3]) = 0)
                  THEN {"SC"}
                  ELSE {"Rectilinear"}
             ELSE BravaisLatticeTypes
        ELSE {"Irregular"}

\* ------------------------------------------------------------------- state
VARIABLES
    phase,                   \* "unconstructed", "ready", or "failed" (constructor threw)
    geometry,                \* the constructor's arguments (see above)
    prng_stream,             \* the values std::mt19937(2006) yields, in units of 1/ConcDen
    qhull_bad,               \* on which point lists Qhull throws (see QhullThrows)
    positions, dimensionality,
    bounds_min, bounds_max, center, cell_bounds_min, cell_bounds_max,
    atom_types, mu_s, mask_unpinned, mask_pinned_cells, nos_nonvacant,
    classifier,
    _triangulation, _tetrahedra, last_update_n_cell_step, last_update_n_cells,
    last_call, prev_call,    \* the last two triangulation()/tetrahedra() calls and results
    pinning_call,            \* the last Apply_Pinning call: field before and after
    filter_call,             \* a get_filter call: arguments, the site tested, the filter's answer
    vm_call,                 \* the last Vectormath call: arguments and outcome
    device,                  \* [launched, pending] when the last Vectormath call returned
    dot_sf_size,             \* size of the static buffer sf of dot(vf1, vf2); -1 before the first call
    minmax_buf_size,         \* size of the static buffers of minmax_component; -1 before the first call
    omp_loop                 \* the parallel loop of get_random_vectorfield_unitsphere in progress

geoFields == <<phase, geometry, prng_stream, qhull_bad, positions, dimensionality,
               bounds_min, bounds_max, center, cell_bounds_min, cell_bounds_max,
               atom_types, mu_s, mask_unpinned, mask_pinned_cells, nos_nonvacant,
               classifier>>
cacheVars == <<_triangulation, _tetrahedra, last_update_n_cell_step, last_update_n_cells>>
callVars == <<last_call, prev_call>>
geoVars == <<geoFields, cacheVars, callVars, pinning_call, filter_call>>
vmVars == <<vm_call, device, dot_sf_size, minmax_buf_size, omp_loop>>
vars == <<geoVars, vmVars>>

\* ----------------------------------------------- triangulation / tetrahedra
\* The cache of a Geometry, as a record, so that the queries can be applied
\* to the cache of the object and to the cache of a newly constructed one.
Cache == [_triangulation |-> _triangulation, _tetrahedra |-> _tetrahedra,
          last_update_n_cell_step |-> last_update_n_cell_step,
          last_update_n_cells |-> last_update_n_cells]

\* "For updates of triangulation and tetrahedra" at the end of the constructor;
\* the two std::vector members are default-constructed (empty).
ConstructedCache == [_triangulation |-> <<>>, _tetrahedra |-> <<>>,
                     last_update_n_cell_step |-> -1,
                     last_update_n_cells |-> <<-1, -1, -1>>]

\* number of passes of "for (cell = 0; cell < n; cell += n_cell_step)"
Visited(n, n_cell_step) == (n + n_cell_step - 1) \div n_cell_step

\* The point list handed to Qhull: points.resize(positions.size()) value-
\* initialises every point, then the loops fill points[0 .. icell-1] from the
\* subsampled cells (cell_c outermost, ibasis innermost).  ndim coordinates.
SubsampledPoints(n_cell_step, ndim) ==
    LET N == n_cell_atoms(geometry)
        A == Visited(geometry.n_cells[1], n_cell_step)
        B == Visited(geometry.n_cells[2], n_cell_step)
        C == Visited(geometry.n_cells[3], n_cell_step)
        size == Cardinality(DOMAIN positions)
    IN  [icell \in 0..(size - 1) |->
            IF icell < N * A * B * C
            THEN LET ibasis == icell % N
                     cell_a == ((icell \div N) % A) * n_cell_step
                     cell_b == ((icell \div (N * A)) % B) * n_cell_step
                     cell_c == (icell \div (N * A * B)) * n_cell_step
                     idx == ibasis + N * cell_a + N * geometry.n_cells[1] * cell_b
                            + N * geometry.n_cells[1] * geometry.n_cells[2] * cell_c
                 IN  [d \in 1..ndim |-> positions[idx][d]]
            ELSE [d \in 1..ndim |-> 0]]

\* compute_delaunay_triangulation_2D / _3D: Qhull is an external library.  Its
\* result, the list of the facets that are not upper-Delaunay, is kept as a
\* one-element list naming the point list it was computed from.  When Qhull
\* throws, the catch block reports and returns an empty list.
QhullFailureModes == {"never", "on_duplicates", "always"}
QhullThrows(points) ==
    \/ qhull_bad = "always"
    \/ /\ qhull_bad = "on_duplicates"
       /\ \E i, j \in DOMAIN points : i # j /\ points[i] = points[j]

\* spirit_handle_exception_core(message), called in the catch blocks: its
\* definition is not part of the sources at hand; it is taken to report the
\* failure and to return to the catch block, as the documented error handling
\* of the geometry has it (caught, reported, never propagated).
spirit_handle_exception_core == [reported |-> TRUE, propagated |-> FALSE]

\* A faulty variant, for testing what the properties below detect: the Delaunay functions without their function-try-block
compute_delaunay_triangulation_uncaught(points, ndim) ==
    IF QhullThrows(points)
    THEN [list |-> <<>>, reported |-> FALSE, propagated |-> TRUE]
    ELSE [list |-> <<[delaunay |-> ndim, of |-> points]>>,
          reported |-> FALSE, propagated |-> FALSE]

\* Result: the list returned (empty when the function is left by an
\* exception), whether the failure was reported, whether an exception leaves
\* the function.
compute_delaunay_triangulation(points, ndim) ==
    IF QhullThrows(points)
    THEN \* catch( ... ) { spirit_handle_exception_core(...); return std::vector(0); }
         [list |-> <<>>, reported |-> spirit_handle_exception_core.reported,
          propagated |-> spirit_handle_exception_core.propagated]
    ELSE [list |-> <<[delaunay |-> ndim, of |-> points]>>,
          reported |-> FALSE, propagated |-> FALSE]

\* A faulty variant, for testing what the properties below detect: the comparison of the cache keys without the step
KeysDiffer_withoutStep(c, n_cell_step) ==
    \/ c.last_update_n_cells[1] # geometry.n_cells[1]
    \/ c.last_update_n_cells[2] # geometry.n_cells[2]
    \/ c.last_update_n_cells[3] # geometry.n_cells[3]

\* The condition under which the queries recompute
KeysDiffer(c, n_cell_step) ==
    \/ c.last_update_n_cell_step # n_cell_step
    \/ c.last_update_n_cells[1] # geometry.n_cells[1]
    \/ c.last_update_n_cells[2] # geometry.n_cells[2]
    \/ c.last_update_n_cells[3] # geometry.n_cells[3]

\* The first if of Geometry::triangulation
TooFewCellsTriangulation(n_cell_step) ==
    \/ (geometry.n_cells[1] \div n_cell_step < 2 /\ geometry.n_cells[1] > 1)
    \/ (geometry.n_cells[2] \div n_cell_step < 2 /\ geometry.n_cells[2] > 1)
    \/ (geometry.n_cells[3] \div n_cell_step < 2 /\ geometry.n_cells[3] > 1)

\* A faulty variant, for testing what the properties below detect: triangulation storing the cache keys before it looks at the dimensionality
triangulation_keysFirst(c, n_cell_step) ==
    LET keyed == [c EXCEPT !.last_update_n_cell_step = n_cell_step,
                           !.last_update_n_cells = geometry.n_cells]
    IN  IF TooFewCellsTriangulation(n_cell_step) \/ dimensionality # 2
        THEN [cache |-> [keyed EXCEPT !._triangulation = <<>>],
              ret |-> <<>>, ran |-> FALSE, reported |-> FALSE, propagated |-> FALSE]
        ELSE IF KeysDiffer(c, n_cell_step)
        THEN LET r == compute_delaunay_triangulation(SubsampledPoints(n_cell_step, 2), 2)
             IN  [cache |-> [keyed EXCEPT !._triangulation = r.list],
                  ret |-> r.list, ran |-> TRUE, reported |-> r.reported,
                  propagated |-> r.propagated]
        ELSE [cache |-> c, ret |-> c._triangulation, ran |-> FALSE, reported |-> FALSE,
              propagated |-> FALSE]

\* Geometry::triangulation(n_cell_step) on cache c.
\* Result: the cache afterwards, the list returned, whether Qhull ran,
\* whether a Qhull failure was reported, and whether an exception leaves the
\* query.
triangulation(c, n_cell_step) ==
    IF TooFewCellsTriangulation(n_cell_step)
    THEN [cache |-> [c EXCEPT !._triangulation = <<>>],
          ret |-> <<>>, ran |-> FALSE, reported |-> FALSE,
          propagated |-> FALSE]
    ELSE IF dimensionality = 2
    THEN IF KeysDiffer(c, n_cell_step)
         THEN LET r == compute_delaunay_triangulation(SubsampledPoints(n_cell_step, 2), 2)
              IN  [cache |-> [c EXCEPT !.last_update_n_cell_step = n_cell_step,
                                       !.last_update_n_cells = geometry.n_cells,
                                       !._triangulation = r.list],
                   ret |-> r.list, ran |-> TRUE, reported |-> r.reported,
                   propagated |-> r.propagated]
         ELSE [cache |-> c, ret |-> c._triangulation, ran |-> FALSE, reported |-> FALSE,
          propagated |-> FALSE]
    ELSE [cache |-> [c EXCEPT !._triangulation = <<>>],
          ret |-> <<>>, ran |-> FALSE, reported |-> FALSE,
          propagated |-> FALSE]

\* The first if of Geometry::tetrahedra
TooFewCellsTetrahedra(n_cell_step) ==
    \/ geometry.n_cells[1] \div n_cell_step < 2
    \/ geometry.n_cells[2] \div n_cell_step < 2
    \/ geometry.n_cells[3] \div n_cell_step < 2

\* int cell_indices[] of Geometry::tetrahedra
cell_indices == <<0, 1, 5, 3,
                  1, 3, 2, 5,
                  3, 2, 5, 6,
                  7, 6, 5, 3,
                  4, 7, 5, 3,
                  0, 4, 3, 5>>

\* The simple regular branch of Geometry::tetrahedra: 6 tetrahedra per cell,
\* pushed in the order of the loops ix, iy, iz, j.
RegularTetrahedra(n_cell_step) ==
    LET nc == geometry.n_cells
        x_offset == 1
        y_offset == nc[1] \div n_cell_step
        z_offset == (((nc[1] \div n_cell_step) * nc[2]) \div n_cell_step)
        offsets == <<0, x_offset, x_offset + y_offset, y_offset,
                     z_offset, x_offset + z_offset, x_offset + y_offset + z_offset,
                     y_offset + z_offset>>
        nx == (nc[1] - 1) \div n_cell_step
        ny == (nc[2] - 1) \div n_cell_step
        nz == (nc[3] - 1) \div n_cell_step
    IN  [q \in 1..(nx * ny * nz * 6) |->
            LET j  == (q - 1) % 6
                iz == ((q - 1) \div 6) % nz
                iy == ((q - 1) \div (6 * nz)) % ny
                ix == (q - 1) \div (6 * nz * ny)
                base_index == ix * x_offset + iy * y_offset + iz * z_offset
            IN  [k \in 1..4 |-> base_index + At(offsets, At(cell_indices, j * 4 + (k - 1)))]]

\* Geometry::tetrahedra(n_cell_step) on cache c.
tetrahedra(c, n_cell_step) ==
    IF TooFewCellsTetrahedra(n_cell_step)
    THEN [cache |-> [c EXCEPT !._tetrahedra = <<>>],
          ret |-> <<>>, ran |-> FALSE, reported |-> FALSE,
          propagated |-> FALSE]
    ELSE IF dimensionality = 3
    THEN IF KeysDiffer(c, n_cell_step)
         THEN LET keyed == [c EXCEPT !.last_update_n_cell_step = n_cell_step,
                                     !.last_update_n_cells = geometry.n_cells]
              IN  IF n_cell_atoms(geometry) = 1
                  THEN LET t == RegularTetrahedra(n_cell_step)
                       IN  [cache |-> [keyed EXCEPT !._tetrahedra = t],
                            ret |-> t, ran |-> FALSE, reported |-> FALSE,
          propagated |-> FALSE]
                  ELSE LET r == compute_delaunay_triangulation(SubsampledPoints(n_cell_step, 3), 3)
                       IN  [cache |-> [keyed EXCEPT !._tetrahedra = r.list],
                            ret |-> r.list, ran |-> TRUE, reported |-> r.reported,
                   propagated |-> r.propagated]
         ELSE [cache |-> c, ret |-> c._tetrahedra, ran |-> FALSE, reported |-> FALSE,
          propagated |-> FALSE]
    ELSE [cache |-> [c EXCEPT !._tetrahedra = <<>>],
          ret |-> <<>>, ran |-> FALSE, reported |-> FALSE,
          propagated |-> FALSE]

\* --------------------------------------------------------- Geometry actions
NoComposition == [disordered |-> FALSE, iatom |-> <<>>, atom_type |-> <<>>,
                  mu_s |-> <<>>, concentration |-> <<>>]
NoPinning == [na_left |-> 0, na_right |-> 0, nb_left |-> 0, nb_right |-> 0,
              nc_left |-> 0, nc_right |-> 0, pinned_cell |-> <<>>,
              sites |-> <<>>, spins |-> <<>>]
NoDefects == [sites |-> <<>>, types |-> <<>>]
NoGeometry == [bravais_vectors |-> <<Zero3, Zero3, Zero3>>, n_cells |-> <<0, 0, 0>>,
               cell_atoms |-> <<>>, cell_composition |-> NoComposition,
               lattice_constant |-> 0, pinning |-> NoPinning, defects |-> NoDefects]
NoCall == [op |-> "none", n_cell_step |-> 0, ret |-> <<>>, ran |-> FALSE, reported |-> FALSE,
          propagated |-> FALSE]
NoPinningCall == [enabled |-> FALSE, before |-> <<>>, after |-> <<>>]
NoFilterCall == [op |-> "none", position |-> Zero3, r_cut_rectangular |-> <<-1, -1, -1>>,
                 r_cut_cylindrical |-> -1, r_cut_spherical |-> -1, inverted |-> FALSE,
                 spin_pos |-> Zero3, accepted |-> FALSE]

GeoInit ==
    /\ phase = "unconstructed"
    /\ geometry = NoGeometry
    /\ prng_stream = <<>>
    /\ qhull_bad = "never"
    /\ positions = <<>>
    /\ dimensionality = 0
    /\ bounds_min = Zero3 /\ bounds_max = Zero3 /\ center = Zero3
    /\ cell_bounds_min = Zero3 /\ cell_bounds_max = Zero3
    /\ atom_types = <<>> /\ mu_s = <<>>
    /\ mask_unpinned = <<>> /\ mask_pinned_cells = <<>>
    /\ nos_nonvacant = 0
    /\ classifier = "Irregular"
    /\ _triangulation = <<>> /\ _tetrahedra = <<>>
    /\ last_update_n_cell_step = 0
    /\ last_update_n_cells = <<0, 0, 0>>
    /\ last_call = NoCall /\ prev_call = NoCall
    /\ pinning_call = NoPinningCall

\* Geometry::Geometry(bravais_vectors, n_cells, cell_atoms, cell_composition,
\*                    lattice_constant, pinning, defects)
\* stream and bad are the behaviour of the two collaborators (the seeded
\* generator, Qhull) in this run.
Construct(g, stream, bad) ==
    /\ phase = "unconstructed"
    /\ geometry' = g
    /\ prng_stream' = stream
    /\ qhull_bad' = bad
    /\ LET gp == generatePositions(g)
       IN  IF gp.threw
           THEN \* spirit_throw leaves the constructor: no object exists
                /\ phase' = "failed"
                /\ positions' = gp.positions
                /\ UNCHANGED <<dimensionality, bounds_min, bounds_max, center,
                               cell_bounds_min, cell_bounds_max, atom_types, mu_s,
                               mask_unpinned, mask_pinned_cells, nos_nonvacant,
                               classifier, cacheVars>>
           ELSE LET b  == calculateBounds(gp.positions)
                    cb == calculateUnitCellBounds(g, gp.positions)
                    st == ConstructedSites(g, stream)
                IN  /\ phase' = "ready"
                    /\ positions' = gp.positions
                    /\ bounds_min' = b.min
                    /\ bounds_max' = b.max
                    /\ cell_bounds_min' = cb.min
                    /\ cell_bounds_max' = cb.max
                    /\ dimensionality' = calculateDimensionality(g, gp.positions)
                    \* center = 0.5 * (bounds_min + bounds_max), in units of 1/(2*Den)
                    /\ center' = [d \in 1..3 |-> b.min[d] + b.max[d]]
                    /\ atom_types' = st.atom_types
                    /\ mu_s' = st.mu_s
                    /\ mask_unpinned' = st.mask_unpinned
                    /\ mask_pinned_cells' = st.mask_pinned_cells
                    /\ nos_nonvacant' = st.nos_nonvacant
                    /\ classifier' \in calculateGeometryType(g)
                    /\ _triangulation' = ConstructedCache._triangulation
                    /\ _tetrahedra' = ConstructedCache._tetrahedra
                    /\ last_update_n_cell_step' = ConstructedCache.last_update_n_cell_step
                    /\ last_update_n_cells' = ConstructedCache.last_update_n_cells
    /\ UNCHANGED <<callVars, pinning_call, filter_call, vmVars>>

\* A call of a query: the cache is replaced and the call is recorded.
Query(op, n_cell_step, r) ==
    /\ _triangulation' = r.cache._triangulation
    /\ _tetrahedra' = r.cache._tetrahedra
    /\ last_update_n_cell_step' = r.cache.last_update_n_cell_step
    /\ last_update_n_cells' = r.cache.last_update_n_cells
    /\ prev_call' = last_call
    /\ last_call' = [op |-> op, n_cell_step |-> n_cell_step, ret |-> r.ret,
                     ran |-> r.ran, reported |-> r.reported,
                     propagated |-> r.propagated]
    /\ UNCHANGED <<geoFields, pinning_call, filter_call, vmVars>>

Triangulation(n_cell_step) ==
    /\ phase = "ready"
    /\ Query("triangulation", n_cell_step, triangulation(Cache, n_cell_step))

Tetrahedra(n_cell_step) ==
    /\ phase = "ready"
    /\ Query("tetrahedra", n_cell_step, tetrahedra(Cache, n_cell_step))

\* Geometry::Apply_Pinning(vf); the body is compiled only when
\* SPIRIT_ENABLE_PINNING is defined.  The loops visit every site once.
\* A faulty variant, for testing what the properties below detect: Apply_Pinning with the mask read the other way round
Apply_Pinning_Field_inverted(enabled, vf) ==
    IF enabled
    THEN [ispin \in DOMAIN vf |->
             IF mask_unpinned[ispin] # 0 THEN mask_pinned_cells[ispin] ELSE vf[ispin]]
    ELSE vf

Apply_Pinning_Field(enabled, vf) ==
    LET N  == n_cell_atoms(geometry)
        Na == geometry.n_cells[1]
        Nb == geometry.n_cells[2]
        Nc == geometry.n_cells[3]
        loop == {N * na + N * Na * nb + N * Na * Nb * nc + iatom :
                     iatom \in 0..(N - 1), na \in 0..(Na - 1),
                     nb \in 0..(Nb - 1), nc \in 0..(Nc - 1)}
    IN  IF enabled
        THEN [ispin \in DOMAIN vf |->
                 IF ispin \in loop /\ mask_unpinned[ispin] = 0
                 THEN mask_pinned_cells[ispin] ELSE vf[ispin]]
        ELSE vf

Apply_Pinning(enabled, vf) ==
    /\ phase = "ready"
    /\ pinning_call' = [enabled |-> enabled, before |-> vf,
                        after |-> Apply_Pinning_Field(enabled, vf)]
    /\ UNCHANGED <<geoFields, cacheVars, callVars, filter_call, vmVars>>

\* ------------------------------------------------------- inputs of the model
BravaisSC         == <<<<1, 0, 0>>, <<0, 1, 0>>, <<0, 0, 1>>>>
BravaisRectilinear == <<<<1, 0, 0>>, <<0, 2, 0>>, <<0, 0, 1>>>>
BravaisSkew       == <<<<1, 0, 0>>, <<1, 1, 0>>, <<0, 0, 1>>>>
BravaisDependent  == <<<<1, 0, 0>>, <<1, 0, 0>>, <<0, 0, 1>>>>
BravaisChoices == {BravaisSC, BravaisRectilinear, BravaisSkew, BravaisDependent}

\* basis positions, in units of 1/Den
AtomCoords == {<<0, 0, 0>>, <<1, 0, 0>>, <<0, 0, 1>>, <<1, 1, 0>>}
CellAtomChoices == {<<a>> : a \in AtomCoords} \cup {<<a, b>> : a, b \in AtomCoords}

\* every basis atom has one composition entry: type 0, moment 1, concentration 1
OrderedComposition(atoms) ==
    [disordered |-> FALSE,
     iatom |-> [k \in 1..Len(atoms) |-> k - 1],
     atom_type |-> [k \in 1..Len(atoms) |-> 0],
     mu_s |-> [k \in 1..Len(atoms) |-> 1],
     concentration |-> [k \in 1..Len(atoms) |-> ConcDen]]

PinnedSpin == <<0, 0, 1>>
SitePinnedSpin == <<1, 0, 0>>
\* pinning specifications for a basis of n atoms: none, boundary layers on
\* axis a, and one explicitly pinned site (atom 0 of cell 0)
PinningChoices(n) ==
    {NoPinning,
     [NoPinning EXCEPT !.na_left = 1, !.pinned_cell = [k \in 1..n |-> PinnedSpin]],
     [NoPinning EXCEPT !.na_right = 1, !.nb_left = 1,
                       !.pinned_cell = [k \in 1..n |-> PinnedSpin]],
     [NoPinning EXCEPT !.sites = <<[i |-> 0, translations |-> <<0, 0, 0>>]>>,
                       !.spins = <<SitePinnedSpin>>],
     [NoPinning EXCEPT !.na_left = 1, !.pinned_cell = [k \in 1..n |-> PinnedSpin],
                       !.sites = <<[i |-> 0, translations |-> <<0, 0, 0>>]>>,
                       !.spins = <<SitePinnedSpin>>]}

DefectChoices == {NoDefects,
                  [sites |-> <<[i |-> 0, translations |-> <<0, 0, 0>>]>>, types |-> <<-1>>]}

Geo(bv, nc, atoms, lc, comp, pin, def) ==
    [bravais_vectors |-> bv, n_cells |-> nc, cell_atoms |-> atoms,
     cell_composition |-> comp, lattice_constant |-> lc, pinning |-> pin, defects |-> def]

\* Lattices: every Bravais choice, cell count, basis and lattice constant
LatticeInputs ==
    {Geo(bv, <<na, nb, nc>>, atoms, lc, OrderedComposition(atoms), NoPinning, NoDefects) :
        bv \in BravaisChoices, na \in 1..2, nb \in 1..2, nc \in 1..2,
        atoms \in CellAtomChoices, lc \in 1..2}

\* Lattices for the queries: cell counts 1, 2 and MaxCells on every axis, one
\* or two basis atoms; and one block with MaxCells + 1 cells along a
CacheInputs ==
    {Geo(bv, <<na, nb, nc>>, atoms, 1, OrderedComposition(atoms), NoPinning, NoDefects) :
        bv \in {BravaisSC}, na \in {1, 2, MaxCells}, nb \in {1, 2, MaxCells},
        nc \in {1, 2, MaxCells},
        atoms \in {<<<<0, 0, 0>>>>, <<<<0, 0, 0>>, <<1, 0, 0>>>>}}
    \cup \* a single-atom block whose cell count a is not a multiple of 2
    {Geo(BravaisSC, <<MaxCells + 1, MaxCells, MaxCells>>, <<<<0, 0, 0>>>>, 1,
         OrderedComposition(<<<<0, 0, 0>>>>), NoPinning, NoDefects)}

\* Sites: pinning and defects on simple lattices
SiteInputs ==
    UNION {{Geo(BravaisSC, <<na, nb, 1>>, atoms, 1, OrderedComposition(atoms), pin, def) :
                na \in 1..3, nb \in 1..2,
                pin \in PinningChoices(Len(atoms)), def \in DefectChoices} :
           atoms \in {<<<<0, 0, 0>>>>, <<<<0, 0, 0>>, <<0, 0, 1>>>>}}

\* A composition from its entries <<iatom, atom_type, mu_s, concentration>>
Composition(disordered, entries) ==
    [disordered |-> disordered,
     iatom |-> [k \in 1..Len(entries) |-> entries[k][1]],
     atom_type |-> [k \in 1..Len(entries) |-> entries[k][2]],
     mu_s |-> [k \in 1..Len(entries) |-> entries[k][3]],
     concentration |-> [k \in 1..Len(entries) |-> entries[k][4]]]

\* Entries for a basis of n atoms.  One atom: a full entry, a partial one, a
\* vacancy type, an alloy of two types.  Two atoms: an entry for each, an
\* entry for the first atom only, partial entries for both.
CompositionEntries(n) ==
    IF n = 1
    THEN {<<<<0, 0, 2, ConcDen>>>>,
          <<<<0, 0, 2, 1>>>>,
          <<<<0, -1, 0, ConcDen>>>>,
          <<<<0, 0, 2, 1>>, <<0, 1, 3, ConcDen>>>>}
    ELSE {<<<<0, 0, 2, ConcDen>>, <<1, 1, 3, ConcDen>>>>,
          <<<<0, 0, 2, ConcDen>>>>,
          <<<<0, 0, 2, 1>>, <<1, 1, 3, 1>>>>}

\* Chains of one or two cells with these compositions, ordered and disordered,
\* without and with a pinned boundary layer
CompositionInputs ==
    UNION {{Geo(BravaisSC, <<na, 1, 1>>, atoms, 1, Composition(disordered, entries),
                pin, NoDefects) :
                na \in 1..2, disordered \in BOOLEAN,
                entries \in CompositionEntries(Len(atoms)),
                pin \in {NoPinning,
                         [NoPinning EXCEPT !.na_left = 1,
                                           !.pinned_cell = [k \in 1..Len(atoms) |-> PinnedSpin]]}} :
           atoms \in {<<<<0, 0, 0>>>>, <<<<0, 0, 0>>, <<0, 0, 1>>>>}}

\* What std::uniform_real_distribution<scalar>(0, 1) can yield on the
\* generator std::mt19937(2006): values in [0, 1), one for every pass of the
\* icomposition loop at most; no value is drawn for an ordered composition.
Streams(g) ==
    LET K == IF g.cell_composition.disordered
             THEN n_cells_total(g) * Len(g.cell_composition.iatom) ELSE 0
    IN  [0..(K - 1) -> 0..(ConcDen - 1)]

\* Orthogonal Bravais vectors of other lengths: cubic with edge 2, and two
\* edges of 2 with one of 1
BravaisCubic2     == <<<<2, 0, 0>>, <<0, 2, 0>>, <<0, 0, 2>>>>
BravaisTetragonal == <<<<2, 0, 0>>, <<0, 2, 0>>, <<0, 0, 1>>>>
\* Vectors 0,1 and 0,2 orthogonal, vectors 1,2 not
BravaisSheared    == <<<<1, 0, 0>>, <<0, 1, 0>>, <<0, 1, 1>>>>
\* Single-atom lattices on them
OrthogonalInputs ==
    {Geo(bv, <<na, 1, nc>>, <<<<0, 0, 0>>>>, 1, OrderedComposition(<<<<0, 0, 0>>>>),
         NoPinning, NoDefects) :
        bv \in {BravaisCubic2, BravaisTetragonal, BravaisSheared}, na \in 1..2, nc \in 1..2}

\* Bases of three and four atoms: three atoms in a plane, four atoms in a
\* plane, four atoms not in a plane
LargeBases ==
    {<<<<0, 0, 0>>, <<1, 0, 0>>, <<0, 1, 0>>>>,
     <<<<0, 0, 0>>, <<1, 0, 0>>, <<0, 1, 0>>, <<1, 1, 0>>>>,
     <<<<0, 0, 0>>, <<1, 0, 0>>, <<0, 1, 0>>, <<0, 0, 1>>>>}
BasisInputs ==
    {Geo(BravaisSC, <<1, 1, nc>>, atoms, 1, OrderedComposition(atoms), NoPinning, NoDefects) :
        nc \in 1..2, atoms \in LargeBases}

\* auto filter = get_filter(vpos, r_cut_rectangular, r_cut_cylindrical,
\* r_cut_spherical, inverted), as every Configuration_* function has it, and
\* the filter applied to the site at spin_pos
GetFilter ==
    /\ filter_call.op = "none"
    /\ filter_call' =
          [filter_call EXCEPT
              !.op = "get_filter",
              !.accepted = FilterAccepts(
                  get_filter(filter_call.position, filter_call.r_cut_rectangular,
                             filter_call.r_cut_cylindrical, filter_call.r_cut_spherical,
                             filter_call.inverted),
                  filter_call.spin_pos)]
    /\ UNCHANGED <<geoFields, cacheVars, callVars, pinning_call, vmVars>>

\* Arguments of get_filter and sites: every cutoff disabled (-1) or enabled
\* (0, 1, 2, 3), sites inside, on and outside the cutoffs
FilterInputs ==
    {[NoFilterCall EXCEPT !.position = position, !.r_cut_rectangular = rect,
                          !.r_cut_cylindrical = cyl, !.r_cut_spherical = sph,
                          !.inverted = inverted, !.spin_pos = spin_pos] :
        position \in {Zero3, <<1, 0, 0>>},
        rect \in [1..3 -> {-1, 1, 2}], cyl \in {-1, 0, 2}, sph \in {-1, 2, 3},
        inverted \in BOOLEAN,
        spin_pos \in {<<x, y, z>> : x \in 0..2, y \in 0..2, z \in 0..2}}

\* the fields handed to Apply_Pinning: a uniform one and one whose sites differ
PinningFields == {[i \in 0..(nos(geometry) - 1) |-> <<0, 1, 0>>],
                  [i \in 0..(nos(geometry) - 1) |-> <<i + 1, 0, 0>>]}

\* ======================================================= Engine::Vectormath
\* (CUDA backend).  A scalarfield is a function on 0..n-1 of integers, a
\* vectorfield a function on 0..n-1 of integer 3-vectors.
Size(f) == Cardinality(DOMAIN f)

RECURSIVE SumTo(_, _)
\* in[0] + ... + in[n-1], accumulated in index order
SumTo(f, n) == IF n = 0 THEN 0 ELSE SumTo(f, n - 1) + f[n - 1]
SeqAccumulate(f) == SumTo(f, Size(f))

\* A faulty variant, for testing what the properties below detect: the loop with the stride blockDim.x in place of blockDim.x*gridDim.x
GridStride_blockStride(block, t, N, blockDim, gridDim) ==
    {i \in 0..(N - 1) : /\ i >= block * blockDim + t
                        /\ (i - (block * blockDim + t)) % blockDim = 0}

\* The indices thread (block, t) reads in the grid-stride loop
\*   for (i = blockIdx.x*blockDim.x + threadIdx.x; i < N; i += blockDim.x*gridDim.x)
GridStride(block, t, N, blockDim, gridDim) ==
    {i \in 0..(N - 1) : /\ i >= block * blockDim + t
                        /\ (i - (block * blockDim + t)) % (blockDim * gridDim) = 0}

\* __shfl_down_sync(0xffffffff, val, offset) for the lane l of a warp whose
\* lanes hold w[0..warpSize-1]: the value of lane l+offset, the lane's own
\* value when l+offset is outside the warp
ShflDown(w, l, offset) == IF l + offset < warpSize THEN w[l + offset] ELSE w[l]

\* val += ..., val = min(val, ...), val = max(val, ...)
Combine(op, a, b) ==
    CASE op = "Sum" -> a + b
      [] op = "Min" -> Min2(a, b)
      [] op = "Max" -> Max2(a, b)

\* warpReduceSum / warpReduceMin / warpReduceMax: the loop
\*   for (offset = warpSize/2; offset > 0; offset /= 2) val = op(val, shfl_down(val, offset))
\* run by all lanes of the warp in lockstep.  Result: the lanes' values.
RECURSIVE warpReduce(_, _, _)
warpReduce(op, w, offset) ==
    IF offset = 0 THEN w
    ELSE warpReduce(op, [l \in 0..(warpSize - 1) |-> Combine(op, w[l], ShflDown(w, l, offset))],
                    offset \div 2)


\* blockReduceSum / blockReduceMinMax for one block: vals[t] is the value of
\* thread t.  Each warp reduces, lane 0 writes shared[wid], after
\* __syncthreads the threads t < blockDim/warpSize read shared[lane] and the
\* others take 0, and warp 0 reduces again.  Result: the value of thread 0.
blockReduce(op, vals, blockDim) ==
    LET nWarps == blockDim \div warpSize
        warp(wid) == [l \in 0..(warpSize - 1) |-> vals[wid * warpSize + l]]
        shared == [wid \in 0..(nWarps - 1) |-> warpReduce(op, warp(wid), warpSize \div 2)[0]]
        first == [l \in 0..(warpSize - 1) |-> IF l < nWarps THEN shared[l] ELSE 0]
    IN  warpReduce(op, first, warpSize \div 2)[0]

\* (N + threads - 1) / threads capped at 1024 blocks
Blocks(N) == Min2((N + threads - 1) \div threads, maxBlocks)

\* cu_sum<<<gridDim, blockDim>>>(in, out, N) with *out = 0 before the launch:
\* every block adds its reduced partial sum to *out by atomicAdd
cu_sum(in, N, gridDim, blockDim) ==
    LET partial(block) ==
            blockReduce("Sum",
                [t \in 0..(blockDim - 1) |->
                    LET idx == GridStride(block, t, N, blockDim, gridDim)
                        RECURSIVE acc(_)
                        acc(S) == IF S = {} THEN 0
                                  ELSE LET i == SetMin(S) IN in[i] + acc(S \ {i})
                    IN  acc(idx)],
                blockDim)
        RECURSIVE atomicAdd(_)
        atomicAdd(b) == IF b = 0 THEN 0 ELSE atomicAdd(b - 1) + partial(b - 1)
    IN  atomicAdd(gridDim)

\* How often the launch cu_sum<<<gridDim, blockDim>>> reads in[i], for every
\* index some thread reads
cu_sum_reads(N, gridDim, blockDim) ==
    LET who(i) == {bt \in (0..(gridDim - 1)) \X (0..(blockDim - 1)) :
                        i \in GridStride(bt[1], bt[2], N, blockDim, gridDim)}
        read == UNION {GridStride(bt[1], bt[2], N, blockDim, gridDim) :
                        bt \in (0..(gridDim - 1)) \X (0..(blockDim - 1))}
    IN  [i \in read |-> Cardinality(who(i))]

\* scalar sum(const scalarfield & sf)
sum(sf) ==
    LET N == Size(sf)
    IN  cu_sum(sf, N, Blocks(N), threads)

\* What the caller can observe of a call that ran into undefined behaviour
\* (an access outside a buffer): the process may die, or go on with some value
\* in place of the one read outside, the write outside being lost to the caller.
GarbageScalars == {0, 7}
GarbageVectors == {Zero3, <<7, 7, 7>>}

Zeros(n) == [i \in 0..(n - 1) |-> 0]

\* void dot(const vectorfield & vf1, const vectorfield & vf2, scalarfield & s)
\* and its kernel cu_dot: n = vf1.size(); s[idx] = vf1[idx].dot(vf2[idx]), idx < n.
\* Result: the set of outcomes [status, out, n, oob_read, oob_write].
dot_field(vf1, vf2, s) ==
    LET n == Size(vf1)
        oob_read  == n > Size(vf2)
        oob_write == n > Size(s)
        out(garbage) ==
            [idx \in DOMAIN s |->
                IF idx < n
                THEN Dot3(vf1[idx], IF idx < Size(vf2) THEN vf2[idx] ELSE garbage)
                ELSE s[idx]]
    IN  IF oob_read \/ oob_write
        THEN {[status |-> "crashed", out |-> s, n |-> n,
               oob_read |-> oob_read, oob_write |-> oob_write]}
             \cup {[status |-> "ok", out |-> out(garbage), n |-> n,
                    oob_read |-> oob_read, oob_write |-> oob_write] :
                   garbage \in GarbageVectors}
        ELSE {[status |-> "ok", out |-> out(Zero3), n |-> n,
               oob_read |-> FALSE, oob_write |-> FALSE]}

\* void add_c_a(const scalar & c, const vectorfield & a, vectorfield & out)
\* and its kernel cu_add_c_a2: n = out.size(); out[idx] += c*a[idx], idx < n.
add_c_a(c, a, out) ==
    LET n == Size(out)
        oob_read == n > Size(a)
        res(garbage) ==
            [idx \in DOMAIN out |->
                VAdd(out[idx], VScale(c, IF idx < Size(a) THEN a[idx] ELSE garbage))]
    IN  IF oob_read
        THEN {[status |-> "crashed", out |-> out, n |-> n,
               oob_read |-> TRUE, oob_write |-> FALSE]}
             \cup {[status |-> "ok", out |-> res(garbage), n |-> n,
                    oob_read |-> TRUE, oob_write |-> FALSE] : garbage \in GarbageVectors}
        ELSE {[status |-> "ok", out |-> res(Zero3), n |-> n,
               oob_read |-> FALSE, oob_write |-> FALSE]}

\* scalar dot(const vectorfield & vf1, const vectorfield & vf2), the reduction.
\* sf_size is the size of "static scalarfield sf(n, 0)" (-1: not constructed
\* yet; the constructor runs on the first call only).  Every call zeroes sf,
\* lets cu_dot write sf[0..n-1] and returns sum(sf).
\* Result: [sf_size, outcomes], outcomes a set of [status, ret, oob_write].
dot(vf1, vf2, sf_size) ==
    LET n == Size(vf1)
        size == IF sf_size = -1 THEN n ELSE sf_size
        sf == [idx \in 0..(size - 1) |->
                  IF idx < n THEN Dot3(vf1[idx], vf2[idx]) ELSE 0]
        ret == sum(sf)
    IN  [sf_size |-> size,
         outcomes |-> IF n > size
                      THEN {[status |-> "crashed", ret |-> 0, oob_write |-> TRUE],
                            [status |-> "ok", ret |-> ret, oob_write |-> TRUE]}
                      ELSE {[status |-> "ok", ret |-> ret, oob_write |-> FALSE]}]

\* The flat view &vf[0][0] of a vectorfield: 3*size scalars
Flat(vf) == [k \in 0..(3 * Size(vf) - 1) |-> vf[k \div 3][(k % 3) + 1]]

\* The value thread 0 gets for _min from the first blockReduceMinMax call of
\* cu_MinMax, as the set of the values it can get.  The two calls share
\* shared_min and no barrier separates them: a warp wid > 0 that has passed
\* the barrier of the first call writes shared_min[wid] of the second call
\* (the warp's minimum of tmp_max) while warp 0 may not have read
\* shared_min[wid] of the first call yet.  raced is the set of the entries
\* warp 0 reads after they were overwritten.
blockReduceMin(tmp_min, tmp_max, blockDim) ==
    LET nWarps == blockDim \div warpSize
        warp(vals, wid) == [l \in 0..(warpSize - 1) |-> vals[wid * warpSize + l]]
        call1 == [wid \in 0..(nWarps - 1) |->
                     warpReduce("Min", warp(tmp_min, wid), warpSize \div 2)[0]]
        call2 == [wid \in 0..(nWarps - 1) |->
                     warpReduce("Min", warp(tmp_max, wid), warpSize \div 2)[0]]
        first(raced) == [l \in 0..(warpSize - 1) |->
                            IF l < nWarps
                            THEN (IF l \in raced THEN call2[l] ELSE call1[l])
                            ELSE 0]
    IN  {warpReduce("Min", first(raced), warpSize \div 2)[0] :
            raced \in SUBSET (1..(nWarps - 1))}

\* cu_MinMax<<<gridDim, blockDim>>>(in, out_min, out_max, N): what the thread 0
\* of every block stores into out_min[blockIdx.x] (the set of the values it
\* can store) and out_max[blockIdx.x].  _min and _max start at 0 in every
\* thread.
cu_MinMax(in, N, gridDim, blockDim) ==
    LET own(op, block, t) ==
            LET RECURSIVE acc(_)
                acc(S) == IF S = {} THEN 0
                          ELSE LET i == SetMax(S) IN Combine(op, acc(S \ {i}), in[i])
            IN  acc(GridStride(block, t, N, blockDim, gridDim))
        tmp_min(block) == [t \in 0..(blockDim - 1) |-> own("Min", block, t)]
        tmp_max(block) == [t \in 0..(blockDim - 1) |-> own("Max", block, t)]
    IN  [block \in 0..(gridDim - 1) |->
            [min |-> blockReduceMin(tmp_min(block), tmp_max(block), blockDim),
             max |-> blockReduce("Max", tmp_max(block), blockDim)]]

\* std::pair<scalar, scalar> minmax_component(const vectorfield & vf).
\* buf_size is the size of the static fields out_min and out_max (-1: not
\* constructed yet; they are sized by the first call's number of blocks).
\* Result: [buf_size, outcomes], outcomes a set of [status, min, max, oob].
minmax_component(vf, buf_size) ==
    LET N == 3 * Size(vf)
        blocks == Blocks(N)
        size == IF buf_size = -1 THEN blocks ELSE buf_size
        first == cu_MinMax(Flat(vf), N, blocks, threads)
        out_mins == {om \in [0..(blocks - 1) -> UNION {first[b].min : b \in 0..(blocks - 1)}] :
                        \A b \in 0..(blocks - 1) : om[b] \in first[b].min}
        out_max == [b \in 0..(blocks - 1) |-> first[b].max]
        \* cu_MinMax<<<1, 1024>>>(out_min, out_min, temp, blocks) and
        \* cu_MinMax<<<1, 1024>>>(out_max, temp, out_max, blocks)
        second_mins == UNION {cu_MinMax(om, blocks, 1, threads2)[0].min : om \in out_mins}
        second_max == cu_MinMax(out_max, blocks, 1, threads2)[0].max
        in_bounds == blocks <= size /\ size >= 1
    IN  [buf_size |-> size,
         outcomes |-> IF in_bounds
                      THEN {[status |-> "ok", min |-> lo, max |-> second_max, oob |-> FALSE] :
                            lo \in second_mins}
                      ELSE {[status |-> "crashed", min |-> 0, max |-> 0, oob |-> TRUE]}
                           \cup {[status |-> "ok", min |-> lo, max |-> hi, oob |-> TRUE] :
                                 lo \in GarbageScalars, hi \in GarbageScalars}]

\* ------------------------------------------------ launches and synchronisation
\* The body of every host function of the backend as its sequence of device
\* events: "launch" (a kernel<<<...>>> statement), "CU_CHECK_AND_SYNC",
\* "cudaDeviceSynchronize", or the name of a host function it calls.
HostFunctions ==
    {"minmax_component", "transform", "get_random_vector", "get_random_vectorfield",
     "get_random_vector_unitsphere", "get_random_vectorfield_unitsphere",
     "fill_sf", "fill_sf_mask", "scale_sf", "add_sf", "sum_sf", "mean_sf", "divide",
     "set_range", "fill_vf", "fill_vf_mask", "normalize_vectors", "norm",
     "max_abs_component", "scale_vf", "sum_vf", "mean_vf", "dot", "dot_vf", "dot_sf",
     "cross", "add_c_a_vec", "add_c_a", "add_c_a_mask", "add_c_a_sf",
     "set_c_a_vec", "set_c_a_vec_mask", "set_c_a", "set_c_a_mask", "set_c_a_sf",
     "add_c_dot_vec", "add_c_dot", "set_c_dot_vec", "set_c_dot",
     "add_c_cross_vec", "add_c_cross", "add_c_cross_sf", "set_c_cross_vec", "set_c_cross"}

\* A faulty variant, for testing what the properties below detect: add and add_c_cross without their cudaDeviceSynchronize()
SingleLaunch_unsynced(f) ==
    IF f \in {"add_sf", "add_c_cross_sf"}
    THEN <<"launch">>
    ELSE <<"launch", "CU_CHECK_AND_SYNC">>

\* The host functions that are one kernel launch and one synchronisation
SingleLaunch(f) ==
    IF f \in {"add_sf", "add_c_cross_sf"}
    THEN <<"launch", "cudaDeviceSynchronize">>
    ELSE <<"launch", "CU_CHECK_AND_SYNC">>

Body(f) ==
    CASE f = "minmax_component" ->
            <<"fill_sf", "fill_sf", "fill_sf", "launch", "launch", "launch",
              "CU_CHECK_AND_SYNC">>
      [] f \in {"get_random_vector", "get_random_vector_unitsphere", "set_range"} -> <<>>
      [] f = "get_random_vectorfield_unitsphere" ->
            <<"get_random_vector_unitsphere">>
      [] f \in {"sum_sf", "mean_sf"} -> <<"fill_sf", "launch", "CU_CHECK_AND_SYNC">>
      [] f \in {"sum_vf", "mean_vf"} -> <<"fill_vf", "launch", "CU_CHECK_AND_SYNC">>
      [] f = "max_abs_component" -> <<"minmax_component">>
      [] f = "dot" -> <<"fill_sf", "launch", "CU_CHECK_AND_SYNC", "sum_sf">>
      [] OTHER -> SingleLaunch(f)

\* cudaDeviceSynchronize(): returns when all work launched before has completed
cudaDeviceSynchronize(dev) == [dev EXCEPT !.pending = FALSE]

\* The macro CU_CHECK_AND_SYNC(): its definition is in a header that is not
\* part of the sources at hand; it is taken to synchronise the device, as the
\* documented contract of the backend has every call do.
CU_CHECK_AND_SYNC(dev) == cudaDeviceSynchronize(dev)

\* Runs a body: [launched, pending] tells whether a kernel was launched at all
\* and whether a launched kernel has not been followed by a synchronisation.
RECURSIVE RunBody(_, _)
RunBody(body, dev) ==
    IF body = <<>> THEN dev
    ELSE LET step == Head(body)
             next == IF step = "launch" THEN [launched |-> TRUE, pending |-> TRUE]
                     ELSE IF step = "cudaDeviceSynchronize" THEN cudaDeviceSynchronize(dev)
                     ELSE IF step = "CU_CHECK_AND_SYNC" THEN CU_CHECK_AND_SYNC(dev)
                     ELSE RunBody(Body(step), dev)
         IN  RunBody(Tail(body), next)

Run(f) == RunBody(Body(f), [launched |-> FALSE, pending |-> FALSE])

\* -------------------------------------------------------- Vectormath actions
NoVmCall == [op |-> "none"]
\* No parallel loop is running.  Of a running loop: n = xi.size(); prng, the
\* state of the caller's std::mt19937 as the number of values it has yielded
\* since the call; for every iteration i its position pc (0 not started,
\* 1 inside distribution(prng) for v_z, 2 v_z drawn, 3 inside distribution(prng)
\* for phi, 4 xi[i] written), the generator state it has loaded (reg) and the
\* numbers of the generator values it drew for v_z and phi (-1: none yet).
NoOmpLoop == [active |-> FALSE, n |-> 0, prng |-> 0, pc |-> <<>>, reg |-> <<>>, xi |-> <<>>]

VmInit ==
    /\ vm_call = NoVmCall
    /\ device = [launched |-> FALSE, pending |-> FALSE]
    /\ dot_sf_size = -1
    /\ minmax_buf_size = -1
    /\ omp_loop = NoOmpLoop

\* scalar sum(const scalarfield & sf)
Sum(sf) ==
    /\ vm_call' = [op |-> "sum", sf |-> sf, ret |-> sum(sf),
                   reads |-> cu_sum_reads(Size(sf), Blocks(Size(sf)), threads)]
    /\ device' = Run("sum_sf")
    /\ UNCHANGED <<dot_sf_size, minmax_buf_size, omp_loop, geoVars>>

\* scalar dot(const vectorfield & vf1, const vectorfield & vf2)
Dot(vf1, vf2) ==
    LET r == dot(vf1, vf2, dot_sf_size)
    IN  /\ \E o \in r.outcomes :
              vm_call' = [op |-> "dot", vf1 |-> vf1, vf2 |-> vf2, status |-> o.status,
                          ret |-> o.ret, oob_write |-> o.oob_write]
        /\ dot_sf_size' = r.sf_size
        /\ device' = Run("dot")
        /\ UNCHANGED <<minmax_buf_size, omp_loop, geoVars>>

\* std::pair<scalar, scalar> minmax_component(const vectorfield & vf)
MinMaxComponent(vf) ==
    LET r == minmax_component(vf, minmax_buf_size)
    IN  /\ \E o \in r.outcomes :
              vm_call' = [op |-> "minmax_component", vf |-> vf, status |-> o.status,
                          min |-> o.min, max |-> o.max, oob |-> o.oob]
        /\ minmax_buf_size' = r.buf_size
        /\ device' = Run("minmax_component")
        /\ UNCHANGED <<dot_sf_size, omp_loop, geoVars>>

\* void dot(const vectorfield & vf1, const vectorfield & vf2, scalarfield & s)
DotField(vf1, vf2, s) ==
    /\ \E o \in dot_field(vf1, vf2, s) :
          vm_call' = [op |-> "dot_vf", sizes |-> <<Size(vf1), Size(vf2), Size(s)>>,
                      before |-> s, status |-> o.status, out |-> o.out, n |-> o.n,
                      oob_read |-> o.oob_read, oob_write |-> o.oob_write]
    /\ device' = Run("dot_vf")
    /\ UNCHANGED <<dot_sf_size, minmax_buf_size, omp_loop, geoVars>>

\* void add_c_a(const scalar & c, const vectorfield & a, vectorfield & out)
AddCA(c, a, out) ==
    /\ \E o \in add_c_a(c, a, out) :
          vm_call' = [op |-> "add_c_a", sizes |-> <<Size(a), Size(out)>>,
                      before |-> out, status |-> o.status, out |-> o.out, n |-> o.n,
                      oob_read |-> o.oob_read, oob_write |-> o.oob_write]
    /\ device' = Run("add_c_a")
    /\ UNCHANGED <<dot_sf_size, minmax_buf_size, omp_loop, geoVars>>

\* cu_fill_mask (scalar): sf[idx] = mask[idx]*s
fill_sf_mask(sf, s, mask) == [idx \in DOMAIN sf |-> mask[idx] * s]

\* cu_fill_mask (Vector3): vf1[idx] = v2
fill_vf_mask(vf, v, mask) == [idx \in DOMAIN vf |-> v]

\* cu_set_c_a_mask: out[idx] = mask[idx]*c*a
set_c_a_vec_mask(c, a, out, mask) == [idx \in DOMAIN out |-> VScale(mask[idx] * c, a)]

\* cu_set_c_a2_mask: out[idx] = mask[idx]*c*a[idx]
set_c_a_mask(c, a, out, mask) == [idx \in DOMAIN out |-> VScale(mask[idx] * c, a[idx])]

\* The host functions with a mask argument that overwrite their field.
\* A call is recorded with the field before and after and with the value the
\* operation has for every site.
MaskedFunctions == {"fill_sf_mask", "fill_vf_mask", "set_c_a_vec_mask", "set_c_a_mask"}

Masked(f, mask, before, value, out) ==
    /\ vm_call' = [op |-> f, mask |-> mask, before |-> before, value |-> value,
                   out |-> out]
    /\ device' = Run(f)
    /\ UNCHANGED <<dot_sf_size, minmax_buf_size, omp_loop, geoVars>>

\* void fill(scalarfield & sf, scalar s, const intfield & mask)
FillScalarMask(sf, s, mask) ==
    Masked("fill_sf_mask", mask, sf, [i \in DOMAIN sf |-> s], fill_sf_mask(sf, s, mask))

\* void fill(vectorfield & vf, const Vector3 & v, const intfield & mask)
FillVectorMask(vf, v, mask) ==
    Masked("fill_vf_mask", mask, vf, [i \in DOMAIN vf |-> v], fill_vf_mask(vf, v, mask))

\* void set_c_a(const scalar & c, const Vector3 & a, vectorfield & out, const intfield & mask)
SetCAVecMask(c, a, out, mask) ==
    Masked("set_c_a_vec_mask", mask, out, [i \in DOMAIN out |-> VScale(c, a)],
           set_c_a_vec_mask(c, a, out, mask))

\* void set_c_a(const scalar & c, const vectorfield & a, vectorfield & out, const intfield & mask)
SetCAMask(c, a, out, mask) ==
    Masked("set_c_a_mask", mask, out, [i \in DOMAIN out |-> VScale(c, a[i])],
           set_c_a_mask(c, a, out, mask))

\* void get_random_vectorfield_unitsphere(std::mt19937 & prng, vectorfield & xi):
\* the function is entered and the threads of "#pragma omp parallel for" start.
GetRandomVectorfieldUnitsphere(n) ==
    /\ ~omp_loop.active
    /\ omp_loop' = [active |-> TRUE, n |-> n, prng |-> 0,
                    pc  |-> [i \in 0..(n - 1) |-> 0],
                    reg |-> [i \in 0..(n - 1) |-> 0],
                    xi  |-> [i \in 0..(n - 1) |-> <<-1, -1>>]]
    /\ UNCHANGED <<vm_call, device, dot_sf_size, minmax_buf_size, geoVars>>

\* The iterations some thread is executing; a team has OmpThreads threads.
InFlight == {i \in DOMAIN omp_loop.pc : omp_loop.pc[i] \in 1..3}

\* distribution(prng) in get_random_vector_unitsphere, called for iteration i
\* with the generator the caller passed by reference: the engine reads its
\* state ...
DistributionLoad(i) ==
    /\ omp_loop.active
    /\ i \in DOMAIN omp_loop.pc
    /\ \/ omp_loop.pc[i] = 0 /\ Cardinality(InFlight) < OmpThreads
       \/ omp_loop.pc[i] = 2
    /\ omp_loop' = [omp_loop EXCEPT !.pc[i] = @ + 1, !.reg[i] = omp_loop.prng]
    /\ UNCHANGED <<vm_call, device, dot_sf_size, minmax_buf_size, geoVars>>

\* ... and writes the advanced state back, yielding the value of the state
\* it read (v_z at pc 1, phi at pc 3; after phi, xi[i] is assigned).  Nothing
\* orders the loads and stores of different iterations.
DistributionStore(i) ==
    /\ omp_loop.active
    /\ i \in DOMAIN omp_loop.pc
    /\ omp_loop.pc[i] \in {1, 3}
    /\ omp_loop' = [omp_loop EXCEPT
                       !.pc[i] = @ + 1,
                       !.prng = omp_loop.reg[i] + 1,
                       !.xi[i] = IF omp_loop.pc[i] = 1
                                 THEN <<omp_loop.reg[i], @[2]>>
                                 ELSE <<@[1], omp_loop.reg[i]>>]
    /\ UNCHANGED <<vm_call, device, dot_sf_size, minmax_buf_size, geoVars>>

\* The end of the parallel loop (its implicit barrier) and the return
GetRandomVectorfieldUnitsphereReturn ==
    /\ omp_loop.active
    /\ \A i \in DOMAIN omp_loop.pc : omp_loop.pc[i] = 4
    /\ omp_loop' = [omp_loop EXCEPT !.active = FALSE]
    /\ vm_call' = [op |-> "get_random_vectorfield_unitsphere", xi |-> omp_loop.xi,
                   prng |-> omp_loop.prng]
    /\ device' = Run("get_random_vectorfield_unitsphere")
    /\ UNCHANGED <<dot_sf_size, minmax_buf_size, geoVars>>

\* any other host function of the backend, for its device events
Call(f) ==
    /\ vm_call' = [op |-> f]
    /\ device' = Run(f)
    /\ UNCHANGED <<dot_sf_size, minmax_buf_size, omp_loop, geoVars>>

\* inputs
VecChoices == {<<1, 2, 3>>, <<-1, 1, 0>>}
VectorFields(n) == [0..(n - 1) -> VecChoices]
\* scalar fields of every size up to MaxN: growing, falling and mixed values
ScalarFields ==
    UNION {{[i \in 0..(n - 1) |-> i + 1], [i \in 0..(n - 1) |-> -(i + 1)],
            [i \in 0..(n - 1) |-> (i % 3) - 1], [i \in 0..(n - 1) |-> 1],
            [i \in 0..(n - 1) |-> (i * i) % 7], [i \in 0..(n - 1) |-> 2 * i - n],
            [i \in 0..(n - 1) |-> IF i = n - 1 THEN 5 ELSE 0]} : n \in 0..MaxN}
\* vector fields up to 3*size > maxBlocks*threads components: all components
\* positive, all negative, mixed signs
LongVectorFields ==
    UNION {{[i \in 0..(n - 1) |-> <<i + 1, i + 2, i + 3>>],
            [i \in 0..(n - 1) |-> <<-(i + 1), -(i + 2), -(i + 3)>>],
            [i \in 0..(n - 1) |-> <<i - 1, -i, 2>>]} : n \in 0..(MaxN \div 3 + 1)}
Ramp(n) == [i \in 0..(n - 1) |-> <<i + 1, 1, 0>>]
\* for the masked operations: a scalar field, a vector field differing from
\* Ramp at every site, and the masks of n sites
ScalarRamp(n) == [i \in 0..(n - 1) |-> i + 1]
Slope(n) == [i \in 0..(n - 1) |-> <<0, i + 2, 3>>]
Masks(n) == [0..(n - 1) -> {0, 1}]

\* ------------------------------------------------------------ specifications
Init == GeoInit /\ VmInit /\ filter_call = NoFilterCall

\* Construction of any lattice of the input sets above, then
\* Apply_Pinning on the constructed geometry.
GeoNext ==
    \/ \E g \in LatticeInputs \cup SiteInputs \cup OrthogonalInputs \cup BasisInputs :
           Construct(g, <<>>, "never")
    \/ \E g \in CompositionInputs : \E stream \in Streams(g) :
           Construct(g, stream, "never")
    \/ \E enabled \in BOOLEAN, vf \in PinningFields : Apply_Pinning(enabled, vf)

SpecGeometry == Init /\ [][GeoNext]_vars

\* Construction of a lattice of CacheInputs, then triangulation() and
\* tetrahedra() calls in any order with any step.
CacheNext ==
    \/ \E g \in CacheInputs, bad \in QhullFailureModes : Construct(g, <<>>, bad)
    \/ \E n_cell_step \in 1..MaxStep : Triangulation(n_cell_step)
    \/ \E n_cell_step \in 1..MaxStep : Tetrahedra(n_cell_step)

SpecCache == Init /\ [][CacheNext]_vars

\* The reduction sum on fields of any size up to MaxN
SumNext == \E sf \in ScalarFields : Sum(sf)

SpecSum == Init /\ [][SumNext]_vars

\* The reduction minmax_component on fields whose size varies from call to call
MinMaxNext ==
    \E vf \in LongVectorFields \cup UNION {VectorFields(n) : n \in 0..MaxLen} :
        MinMaxComponent(vf)

SpecMinMax == Init /\ [][MinMaxNext]_vars

\* The reduction dot(vf1, vf2) on equal-length fields whose length varies
\* from call to call
DotNext == \E n \in 0..MaxDotLen : \E vf1, vf2 \in VectorFields(n) : Dot(vf1, vf2)

SpecDot == Init /\ [][DotNext]_vars

\* get_filter and its filter, on every input of FilterInputs
FilterInit == GeoInit /\ VmInit /\ filter_call \in FilterInputs

FilterNext == GetFilter

SpecFilter == FilterInit /\ [][FilterNext]_vars

\* The two reductions that keep static buffers, called in any order on fields
\* of varying sizes
BuffersNext ==
    \/ \E n \in 0..MaxDotLen : Dot(Ramp(n), Ramp(n))
    \/ \E n \in 0..(MaxN \div 3 + 1) : MinMaxComponent(Ramp(n))

SpecBuffers == Init /\ [][BuffersNext]_vars

\* get_random_vectorfield_unitsphere on fields of up to MaxXi sites, the
\* iterations of its parallel loop interleaved in every way
RandomNext ==
    \/ \E n \in 0..MaxXi : GetRandomVectorfieldUnitsphere(n)
    \/ \E i \in 0..(MaxXi - 1) : DistributionLoad(i)
    \/ \E i \in 0..(MaxXi - 1) : DistributionStore(i)
    \/ GetRandomVectorfieldUnitsphereReturn

SpecRandom == Init /\ [][RandomNext]_vars

\* The field operations, with arguments of any lengths, the masked
\* operations with every mask, and every other host function of the backend
\* for its device events
FieldsNext ==
    \/ \E n1, n2, n3 \in 0..MaxLen : DotField(Ramp(n1), Ramp(n2), Zeros(n3))
    \/ \E c \in {1, 2}, n1, n2 \in 0..MaxLen : AddCA(c, Ramp(n1), Ramp(n2))
    \/ \E f \in HostFunctions \ MaskedFunctions : Call(f)
    \/ \E n \in 0..MaxLen : \E mask \in Masks(n) : FillScalarMask(ScalarRamp(n), 5, mask)
    \/ \E n \in 0..MaxLen : \E mask \in Masks(n) : FillVectorMask(Ramp(n), <<0, 0, 7>>, mask)
    \/ \E c \in {1, 2}, n \in 0..MaxLen : \E mask \in Masks(n) :
           SetCAVecMask(c, <<1, 2, 3>>, Ramp(n), mask)
    \/ \E c \in {1, 2}, n \in 0..MaxLen : \E mask \in Masks(n) :
           SetCAMask(c, Slope(n), Ramp(n), mask)

SpecFields == Init /\ [][FieldsNext]_vars

\* ================================================================= properties

\* ---- C1 (as claimed; refuted by the code) --------------------------------
\* Every result of triangulation(step) / tetrahedra(step) equals what the same
\* query returns on the newly constructed geometry, whatever calls preceded.
C1_QueryResultIsFresh ==
    phase = "ready" =>
        /\ last_call.op = "triangulation" =>
              last_call.ret = triangulation(ConstructedCache, last_call.n_cell_step).ret
        /\ last_call.op = "tetrahedra" =>
              last_call.ret = tetrahedra(ConstructedCache, last_call.n_cell_step).ret

\* ---- C2 -------------------------------------------------------------------
\* On a geometry of dimensionality 2, for a triangulation(step) call with
\* enough cells for the step: (a) if the call before was triangulation with
\* the same step, Qhull does not run and the list returned is the one returned
\* before, still cached; (b) if the call before was triangulation with another
\* step that had enough cells, Qhull runs and the keys become (step, n_cells);
\* (c) the first call after construction runs Qhull; the keys start at -1.
C2_ValidTriangulation(call) ==
    /\ call.op = "triangulation"
    /\ ~TooFewCellsTriangulation(call.n_cell_step)

C2_TriangulationCache ==
    phase = "ready" =>
        /\ last_call.op = "none" =>
              /\ last_update_n_cell_step = -1
              /\ last_update_n_cells = <<-1, -1, -1>>
        /\ (dimensionality = 2 /\ C2_ValidTriangulation(last_call)) =>
              /\ (prev_call.op = "triangulation"
                    /\ prev_call.n_cell_step = last_call.n_cell_step) =>
                    /\ ~last_call.ran
                    /\ last_call.ret = prev_call.ret
                    /\ _triangulation = prev_call.ret
              /\ (C2_ValidTriangulation(prev_call)
                    /\ prev_call.n_cell_step # last_call.n_cell_step) =>
                    /\ last_call.ran
                    /\ last_update_n_cell_step = last_call.n_cell_step
                    /\ last_update_n_cells = geometry.n_cells
              /\ prev_call.op = "none" => last_call.ran

\* a second triangulation(step) in a row on a 2D geometry, answered from the
\* cache with a list of triangles
C2_Witness ==
    /\ phase = "ready" /\ dimensionality = 2
    /\ C2_ValidTriangulation(last_call)
    /\ prev_call.op = "triangulation"
    /\ prev_call.n_cell_step = last_call.n_cell_step
    /\ ~last_call.ran
    /\ last_call.ret # <<>>

\* ---- C3 (as claimed; refuted by the code) --------------------------------
\* After a construction that did not throw, no two distinct sites have
\* positions that agree within 1e-6 in all three coordinates.
C3_Coincide(p, q) ==
    \A d \in 1..3 : Abs(p[d] - q[d]) * EpsInv < Den

C3_NoCoincidentSites ==
    phase = "ready" =>
        \A i, j \in DOMAIN positions : i # j => ~C3_Coincide(positions[i], positions[j])

\* ---- C4 -------------------------------------------------------------------
\* A construction with two different basis atoms at the same fractional
\* position ends in the initialization error, and no position has been written.
C4_DuplicateBasisAtoms ==
    \E i, j \in 1..Len(geometry.cell_atoms) :
        i # j /\ geometry.cell_atoms[i] = geometry.cell_atoms[j]

C4_DuplicateAtomsThrow ==
    (phase # "unconstructed" /\ C4_DuplicateBasisAtoms) =>
        /\ phase = "failed"
        /\ DOMAIN positions = {}

C4_Witness ==
    /\ phase = "failed"
    /\ C4_DuplicateBasisAtoms
    /\ nos(geometry) > 1

\* ---- C5 (as claimed; refuted by the code) --------------------------------
\* Every call of the reduction dot(a, b) on two fields of equal length, in a
\* run where the length varies from call to call, returns the sum over i of
\* a[i].b[i].
C5_SumOfProducts(vf1, vf2) ==
    SeqAccumulate([i \in DOMAIN vf1 |-> Dot3(vf1[i], vf2[i])])

C5_DotIsSumOfProducts ==
    vm_call.op = "dot" =>
        /\ vm_call.status = "ok"
        /\ vm_call.ret = C5_SumOfProducts(vm_call.vf1, vm_call.vf2)

\* ---- C6 -------------------------------------------------------------------
\* sum(f) returns what accumulating f[0], f[1], ... in index order gives, for
\* every length N (0, 1, not a multiple of the block size, more than the grid
\* holds in one pass); the launch reads every index of [0, N) exactly once and
\* no other index.
C6_SumIsSequentialSum ==
    vm_call.op = "sum" =>
        /\ vm_call.ret = SeqAccumulate(vm_call.sf)
        /\ DOMAIN vm_call.reads = 0..(Size(vm_call.sf) - 1)
        /\ \A i \in DOMAIN vm_call.reads : vm_call.reads[i] = 1

\* a sum over more elements than maxBlocks*threads, not a multiple of threads
C6_Witness ==
    /\ vm_call.op = "sum"
    /\ Size(vm_call.sf) > maxBlocks * threads
    /\ Size(vm_call.sf) % threads # 0
    /\ vm_call.ret # 0

\* ---- C7 (as claimed; refuted by the code) --------------------------------
\* minmax_component(vf) on a non-empty field returns the smallest and the
\* largest of the 3N components of vf.
C7_Components(vf) == {vf[i][d] : i \in DOMAIN vf, d \in 1..3}

C7_MinMaxOfComponents ==
    (vm_call.op = "minmax_component" /\ Size(vm_call.vf) > 0) =>
        /\ vm_call.status = "ok"
        /\ vm_call.min = SetMin(C7_Components(vm_call.vf))
        /\ vm_call.max = SetMax(C7_Components(vm_call.vf))

\* ---- C8 (as claimed; refuted by the code) --------------------------------
\* A field operation called with fields of different lengths ends in an error
\* signal: it neither completes on the first n sites of the longer argument
\* nor accesses a shorter argument past its end.
C8_Mismatched ==
    /\ vm_call.op \in {"dot_vf", "add_c_a"}
    /\ \E k, l \in DOMAIN vm_call.sizes : vm_call.sizes[k] # vm_call.sizes[l]

C8_MismatchFailsFast ==
    C8_Mismatched =>
        /\ vm_call.status # "ok"
        /\ ~vm_call.oob_read
        /\ ~vm_call.oob_write

\* ---- C9 -------------------------------------------------------------------
\* When a host function of the backend returns, no kernel it launched is
\* without a synchronisation after it.
C9_SynchronisedOnReturn ==
    vm_call.op # "none" => ~device.pending

\* add_c_cross(scalarfield, ...) has returned: launched, then synchronised
C9_Witness ==
    /\ vm_call.op = "add_c_cross_sf"
    /\ device.launched
    /\ ~device.pending

\* ---- C10 ------------------------------------------------------------------
\* A step that is an Apply_Pinning call leaves every site with
\* mask_unpinned = 1 as supplied, and leaves the geometry's fields and its
\* cache as they were.
C10_ApplyPinningFrame ==
    [][(phase = "ready" /\ pinning_call' # pinning_call) =>
          /\ \A i \in DOMAIN pinning_call'.before :
                mask_unpinned[i] = 1 => pinning_call'.after[i] = pinning_call'.before[i]
          /\ UNCHANGED <<geoFields, cacheVars>>]_vars

\* an Apply_Pinning call that overwrote a pinned site and met an unpinned one
C10_Witness ==
    /\ phase = "ready"
    /\ pinning_call.enabled
    /\ \E i \in DOMAIN pinning_call.before :
          mask_unpinned[i] = 0 /\ pinning_call.after[i] # pinning_call.before[i]
    /\ \E i \in DOMAIN pinning_call.before : mask_unpinned[i] = 1

\* ---- C11 ------------------------------------------------------------------
\* A geometry constructed with a single basis atom has as dimensionality the
\* number of axes with more than one cell: 1 for a chain, 2 for a sheet, 3 for
\* a block (and 0 for a single cell).
C11_AxesInUse == Cardinality({d \in 1..3 : geometry.n_cells[d] > 1})

C12_MutuallyOrthogonal ==
    \A i, j \in 1..3 :
        i # j => Dot3(geometry.bravais_vectors[i], geometry.bravais_vectors[j]) = 0

C12_EqualLengths ==
    \A i, j \in 1..3 :
        Norm2(geometry.bravais_vectors[i]) = Norm2(geometry.bravais_vectors[j])

C12_ClassifierByLengths ==
    (phase = "ready" /\ n_cell_atoms(geometry) = 1 /\ C12_MutuallyOrthogonal) =>
        /\ classifier = "SC" <=> C12_EqualLengths
        /\ classifier = "Rectilinear" <=> ~C12_EqualLengths

\* ---- C13 (as claimed; refuted by the code) -------------------------------
\* A geometry constructed with a disordered composition whose concentrations
\* are all 1.0 has the atom_types, mu_s, nos_nonvacant and pinning masks of
\* the geometry constructed from the same arguments with the composition
\* marked ordered.
C13_AllConcentrationsOne ==
    \A k \in 1..Len(geometry.cell_composition.concentration) :
        geometry.cell_composition.concentration[k] = ConcDen

C13_Ordered ==
    ConstructedSites([geometry EXCEPT !.cell_composition.disordered = FALSE], <<>>)

C13_FullConcentrationIsOrdered ==
    (phase = "ready" /\ geometry.cell_composition.disordered /\ C13_AllConcentrationsOne) =>
        /\ atom_types = C13_Ordered.atom_types
        /\ mu_s = C13_Ordered.mu_s
        /\ nos_nonvacant = C13_Ordered.nos_nonvacant
        /\ mask_unpinned = C13_Ordered.mask_unpinned
        /\ mask_pinned_cells = C13_Ordered.mask_pinned_cells

\* ---- C17 (as claimed; refuted by the code) -------------------------------
\* After a construction with disordered composition, every site at which no
\* composition entry was applied has atom type -1 and magnetic moment 0.
C17_Unvisited ==
    DOMAIN atom_types \ applyCellComposition(geometry, prng_stream, DefaultSites(geometry)).won

C17_UnvisitedSitesAreVacancies ==
    (phase = "ready" /\ geometry.cell_composition.disordered) =>
        \A i \in C17_Unvisited : atom_types[i] = -1 /\ mu_s[i] = 0

\* ---- C18 (as claimed; refuted by the code) -------------------------------
\* After construction nos_nonvacant is the number of sites whose atom type is
\* not negative.
C18_NonVacantSites == {i \in DOMAIN atom_types : atom_types[i] >= 0}

C18_CountsNonVacantSites ==
    phase = "ready" => nos_nonvacant = Cardinality(C18_NonVacantSites)

\* ---- C14 -----------------------------------------------------------------
\* When Qhull throws during triangulation(step) or tetrahedra(step), no
\* exception leaves the query: the failure is reported and the list returned
\* is empty.
C14_BackendThrew ==
    /\ last_call.ran
    /\ QhullThrows(SubsampledPoints(last_call.n_cell_step,
                                   IF last_call.op = "triangulation" THEN 2 ELSE 3))

C14_BackendFailureIsContained ==
    (phase = "ready" /\ C14_BackendThrew) =>
        /\ ~last_call.propagated
        /\ last_call.reported
        /\ last_call.ret = <<>>

\* a query in which Qhull threw: triangulation on a sheet, or tetrahedra on a
\* block of two-atom cells
C14_Witness ==
    /\ phase = "ready"
    /\ C14_BackendThrew
    /\ last_call.reported
    /\ last_call.ret = <<>>
    /\ \/ last_call.op = "triangulation" /\ geometry.n_cells = <<2, 2, 1>>
       \/ last_call.op = "tetrahedra" /\ geometry.n_cells = <<2, 2, 2>>

\* ---- C15 (as claimed; refuted by the code) -------------------------------
\* A masked overwriting operation (fill with mask on a scalar field and on a
\* vector field, set_c_a with mask) sets every site with mask 1 to the
\* operation's value and leaves every site with mask 0 as it was before the
\* call.
C15_MaskGatesTheOperation ==
    vm_call.op \in MaskedFunctions =>
        \A i \in DOMAIN vm_call.before :
            /\ vm_call.mask[i] = 1 => vm_call.out[i] = vm_call.value[i]
            /\ vm_call.mask[i] = 0 => vm_call.out[i] = vm_call.before[i]

\* ---- C16 (as claimed; refuted by the code) -------------------------------
\* After construction bounds_min[d] and bounds_max[d] are the smallest and the
\* largest of positions[i][d] over all sites i, on every axis d, also when all
\* positions are on one side of zero on that axis; center is the midpoint of
\* the two corners (center is kept in units of 1/(2*Den)).
C16_Coordinates(d) == {positions[i][d] : i \in DOMAIN positions}

C16_BoundsAreMinMaxOfPositions ==
    phase = "ready" =>
        \A d \in 1..3 :
            /\ bounds_min[d] = SetMin(C16_Coordinates(d))
            /\ bounds_max[d] = SetMax(C16_Coordinates(d))
            /\ center[d] = bounds_min[d] + bounds_max[d]

\* ---- C19 (as claimed; refuted by the code) -------------------------------
\* When the rank of the basis and the rank of the translations are equal and
\* not zero, the dimensionality is that rank if the two test vectors are
\* parallel or antiparallel, and that rank plus one otherwise.
C19_Basis == BasisDimensionality(geometry, positions)
C19_Translations == TranslationsDimensionality(geometry)

C19_EqualRanks ==
    /\ ~C19_Basis.done /\ ~C19_Translations.done
    /\ C19_Basis.dims = C19_Translations.dims
    /\ C19_Basis.dims # 0

C19_Parallel == Cross3(C19_Basis.vec, C19_Translations.vec) = Zero3

C19_EqualRanksNeedParallelVectors ==
    (phase = "ready" /\ C19_EqualRanks) =>
        dimensionality = IF C19_Parallel THEN C19_Basis.dims ELSE C19_Basis.dims + 1

\* ---- C20 (as claimed; refuted by the code) -------------------------------
\* The rank the dimensionality inference finds for the basis is 0 for one
\* atom, 1 when all basis atoms are on a line, 2 when they are in a plane but
\* not on a line, and 3 otherwise, for a basis of any number of atoms.
C20_Offsets == {VSub(positions[i], positions[0]) : i \in 1..(n_cell_atoms(geometry) - 1)}

C20_Rank ==
    IF C20_Offsets = {} THEN 0
    ELSE IF \A u, v \in C20_Offsets : Cross3(u, v) = Zero3 THEN 1
    ELSE IF \A u, v, w \in C20_Offsets : Dot3(w, Cross3(u, v)) = 0 THEN 2
    ELSE 3

C20_BasisRankIsGeometricRank ==
    phase = "ready" =>
        LET b == BasisDimensionality(geometry, positions)
        IN  (IF b.done THEN 3 ELSE b.dims) = C20_Rank

\* ---- C21 (as claimed; refuted by the code) -------------------------------
\* After construction every geometry that is not a single basis atom on three
\* mutually orthogonal Bravais vectors has classifier Irregular: a basis of
\* several atoms, and one atom on vectors of which some pair (0,1), (0,2) or
\* (1,2) is not orthogonal.
C21_Orthogonal(i, j) ==
    Dot3(geometry.bravais_vectors[i], geometry.bravais_vectors[j]) = 0

C21_CubicOrRectilinear ==
    /\ n_cell_atoms(geometry) = 1
    /\ C21_Orthogonal(1, 2) /\ C21_Orthogonal(1, 3) /\ C21_Orthogonal(2, 3)

C21_OtherwiseIrregular ==
    (phase = "ready" /\ ~C21_CubicOrRectilinear) => classifier = "Irregular"

\* ---- C22 (as claimed; refuted by the code) -------------------------------
\* The first triangulation(step) on a geometry of dimensionality 2, and the
\* first tetrahedra(step) on one of dimensionality 3, with Qhull working,
\* returns the empty list exactly when some axis with more than one cell has
\* fewer than two subsampled cells (the cells 0, step, 2*step, ... below
\* n_cells); an axis of one cell does not empty the result.
C22_TooFewSubsampledCells(n_cell_step) ==
    \E d \in 1..3 :
        geometry.n_cells[d] > 1 /\ Visited(geometry.n_cells[d], n_cell_step) < 2

C22_FirstQuery ==
    /\ phase = "ready" /\ qhull_bad = "never" /\ prev_call.op = "none"
    /\ \/ last_call.op = "triangulation" /\ dimensionality = 2
       \/ last_call.op = "tetrahedra" /\ dimensionality = 3

C22_EmptyOnlyForTooFewCells ==
    C22_FirstQuery =>
        (last_call.ret = <<>> <=> C22_TooFewSubsampledCells(last_call.n_cell_step))

\* ---- C23 (as claimed; refuted by the code) -------------------------------
\* Whenever a query runs the Delaunay computation, the point list it hands
\* over holds one point for every subsampled cell and basis atom, in the
\* order of the cells, and nothing else, for every step.
C23_SubsampledPositions(n_cell_step, ndim) ==
    LET N == n_cell_atoms(geometry)
        A == Visited(geometry.n_cells[1], n_cell_step)
        B == Visited(geometry.n_cells[2], n_cell_step)
        C == Visited(geometry.n_cells[3], n_cell_step)
    IN  [k \in 0..(N * A * B * C - 1) |->
            LET cell_a == ((k \div N) % A) * n_cell_step
                cell_b == ((k \div (N * A)) % B) * n_cell_step
                cell_c == (k \div (N * A * B)) * n_cell_step
                site == positions[SpinIndex(geometry, k % N, cell_a, cell_b, cell_c)]
            IN  [d \in 1..ndim |-> site[d]]]

C23_DelaunayOfSubsampledPositions ==
    (phase = "ready" /\ last_call.ran /\ last_call.ret # <<>>) =>
        last_call.ret[1].of =
            C23_SubsampledPositions(last_call.n_cell_step, last_call.ret[1].delaunay)

\* ---- C24 (as claimed; refuted by the code) -------------------------------
\* On a geometry of one basis atom and dimensionality 3, the first
\* tetrahedra(step) with at least two subsampled cells on every axis returns
\* six tetrahedra for every unit cube of the subsampled grid of A x B x C
\* cells; each has four distinct vertices, all of them corners of one cube
\* under index = ia + A*ib + A*B*ic, and every index is below A*B*C.
C24_Grid == [d \in 1..3 |-> Visited(geometry.n_cells[d], last_call.n_cell_step)]

C24_Cubes ==
    {<<ia, ib, ic>> : ia \in 0..(C24_Grid[1] - 2), ib \in 0..(C24_Grid[2] - 2),
                      ic \in 0..(C24_Grid[3] - 2)}

C24_Corners(cube) ==
    {(cube[1] + da) + C24_Grid[1] * (cube[2] + db)
        + C24_Grid[1] * C24_Grid[2] * (cube[3] + dc) : da, db, dc \in 0..1}

C24_Vertices(tetrahedron) == {tetrahedron[k] : k \in 1..4}

C24_SixTetrahedraPerCube ==
    (/\ phase = "ready" /\ n_cell_atoms(geometry) = 1 /\ dimensionality = 3
     /\ last_call.op = "tetrahedra" /\ prev_call.op = "none"
     /\ \A d \in 1..3 : C24_Grid[d] >= 2) =>
        /\ \A cube \in C24_Cubes :
               Cardinality({q \in DOMAIN last_call.ret :
                               C24_Vertices(last_call.ret[q]) \subseteq C24_Corners(cube)}) = 6
        /\ \A q \in DOMAIN last_call.ret :
               /\ Cardinality(C24_Vertices(last_call.ret[q])) = 4
               /\ \E cube \in C24_Cubes :
                      C24_Vertices(last_call.ret[q]) \subseteq C24_Corners(cube)
               /\ \A k \in 1..4 :
                      /\ last_call.ret[q][k] >= 0
                      /\ last_call.ret[q][k] < C24_Grid[1] * C24_Grid[2] * C24_Grid[3]

\* ---- C25 (as claimed; refuted by the code) -------------------------------
\* After construction mask_unpinned is 0 at exactly the sites whose cell lies
\* in a boundary layer of some axis (cell index below the left count, or at
\* least the cell count minus the right count) or that are named in
\* pinning.sites, whatever their basis atom; a site named in pinning.sites
\* holds the spin given for it in pinning.spins.
C25_Cell(ispin) ==
    LET N == n_cell_atoms(geometry)
    IN  <<(ispin \div N) % geometry.n_cells[1],
          (ispin \div (N * geometry.n_cells[1])) % geometry.n_cells[2],
          ispin \div (N * geometry.n_cells[1] * geometry.n_cells[2])>>

C25_InLayer(cell) ==
    LET pin   == geometry.pinning
        left  == <<pin.na_left, pin.nb_left, pin.nc_left>>
        right == <<pin.na_right, pin.nb_right, pin.nc_right>>
    IN  \E d \in 1..3 : cell[d] < left[d] \/ cell[d] >= geometry.n_cells[d] - right[d]

C25_Named(k) ==
    LET site == geometry.pinning.sites[k]
        N    == n_cell_atoms(geometry)
    IN  site.i + N * (site.translations[1]
                      + geometry.n_cells[1] * (site.translations[2]
                                               + geometry.n_cells[2] * site.translations[3]))

C25_PinnedExactlyWhereConfigured ==
    phase = "ready" =>
        /\ \A ispin \in DOMAIN mask_unpinned :
               mask_unpinned[ispin] = 0 <=>
                   \/ C25_InLayer(C25_Cell(ispin))
                   \/ \E k \in DOMAIN geometry.pinning.sites : C25_Named(k) = ispin
        /\ \A k \in DOMAIN geometry.pinning.sites :
               mask_pinned_cells[C25_Named(k)] = geometry.pinning.spins[k]

\* ---- C26 (as claimed; refuted by the code) -------------------------------
\* While the parallel loop of get_random_vectorfield_unitsphere runs, at most
\* one iteration is inside distribution(prng), between reading the generator
\* state and writing it back; and when the loop has ended, the 2*n draws got
\* 2*n different values of the generator, which has advanced by 2*n.
C26_InsideDistribution == {i \in DOMAIN omp_loop.pc : omp_loop.pc[i] \in {1, 3}}

C26_Draws == {<<i, k>> : i \in DOMAIN omp_loop.xi, k \in 1..2}

C26_NoConcurrentGeneratorAccess ==
    /\ omp_loop.active => Cardinality(C26_InsideDistribution) <= 1
    /\ (vm_call.op = "get_random_vectorfield_unitsphere" /\ ~omp_loop.active) =>
          /\ vm_call.prng = 2 * omp_loop.n
          /\ \A d, e \in C26_Draws :
                 d # e => vm_call.xi[d[1]][d[2]] # vm_call.xi[e[1]][e[2]]

\* ---- C27 (as claimed; refuted by the code) -------------------------------
\* In every sequence of minmax_component and dot(vf1, vf2) calls, at each call
\* the static buffers are long enough for what the kernels write: sf of dot
\* has at least n = vf1.size() elements, out_min and out_max of
\* minmax_component at least as many as blocks are launched (in the first
\* launch and in the two launches of one block that follow); no write falls
\* outside a buffer.
C27_BlocksLaunched(vf) == Max2(Min2((3 * Size(vf) + threads - 1) \div threads, maxBlocks), 1)

C27_WritesInsideBuffers ==
    /\ vm_call.op = "dot" =>
          /\ dot_sf_size >= Size(vm_call.vf1)
          /\ ~vm_call.oob_write
    /\ vm_call.op = "minmax_component" =>
          /\ minmax_buf_size >= C27_BlocksLaunched(vm_call.vf)
          /\ ~vm_call.oob

\* ---- C28 (as claimed; refuted by the code) -------------------------------
\* The two block reductions of cu_MinMax do not disturb each other through
\* shared_min and shared_max: whenever minmax_component has written inside
\* its buffers, the minimum and the maximum it reports are the smallest and
\* the largest of the per-thread values, that is, of the components of the
\* field and the 0 every thread starts from.
C28_PerThreadValues(vf) == {0} \cup {vf[i][d] : i \in DOMAIN vf, d \in 1..3}

C28_ReductionsDoNotInterfere ==
    (vm_call.op = "minmax_component" /\ ~vm_call.oob) =>
        /\ vm_call.min = SetMin(C28_PerThreadValues(vm_call.vf))
        /\ vm_call.max = SetMax(C28_PerThreadValues(vm_call.vf))

\* ---- C29 -----------------------------------------------------------------
\* The results of triangulation() do not depend on the tetrahedra() calls made
\* in between, and the other way round, although both use the keys
\* last_update_n_cell_step and last_update_n_cells.  What triangulation()
\* reads and writes of the cache is _triangulation and, on a geometry of
\* dimensionality 2 only, the keys; tetrahedra() reads and writes _tetrahedra
\* and, on dimensionality 3 only, the keys.  (a) Every call gives the result
\* and leaves the part of its own query as it does when the rest of the cache
\* is replaced by the values of a new geometry; (b) a call of one query
\* leaves the part of the other query unchanged.
C29_Keys(c) == <<c.last_update_n_cell_step, c.last_update_n_cells>>

C29_Part(op, c) ==
    <<IF op = "triangulation" THEN c._triangulation ELSE c._tetrahedra,
      IF dimensionality = (IF op = "triangulation" THEN 2 ELSE 3)
      THEN C29_Keys(c) ELSE C29_Keys(ConstructedCache)>>

C29_Only(op, c) ==
    [_triangulation |-> IF op = "triangulation" THEN c._triangulation
                        ELSE ConstructedCache._triangulation,
     _tetrahedra |-> IF op = "tetrahedra" THEN c._tetrahedra
                     ELSE ConstructedCache._tetrahedra,
     last_update_n_cell_step |-> C29_Part(op, c)[2][1],
     last_update_n_cells |-> C29_Part(op, c)[2][2]]

C29_ReadsOwnPart ==
    phase = "ready" =>
        \A n_cell_step \in 1..MaxStep :
            /\ LET r == triangulation(Cache, n_cell_step)
                   o == triangulation(C29_Only("triangulation", Cache), n_cell_step)
               IN  /\ r.ret = o.ret
                   /\ C29_Part("triangulation", r.cache) = C29_Part("triangulation", o.cache)
            /\ LET r == tetrahedra(Cache, n_cell_step)
                   o == tetrahedra(C29_Only("tetrahedra", Cache), n_cell_step)
               IN  /\ r.ret = o.ret
                   /\ C29_Part("tetrahedra", r.cache) = C29_Part("tetrahedra", o.cache)

C29_KeepsOtherPart ==
    (phase = "ready" /\ phase' = "ready" /\ prev_call' = last_call) =>
        /\ last_call'.op = "tetrahedra" =>
              C29_Part("triangulation", Cache') = C29_Part("triangulation", Cache)
        /\ last_call'.op = "triangulation" =>
              C29_Part("tetrahedra", Cache') = C29_Part("tetrahedra", Cache)

C29_QueriesDoNotInterfere == [](C29_ReadsOwnPart) /\ [][C29_KeepsOtherPart]_vars

\* a triangulation answered from the cache right after a tetrahedra call on a
\* sheet, or a tetrahedra call answered from the cache right after a
\* triangulation call on a block
C29_Witness ==
    /\ phase = "ready"
    /\ ~last_call.ran /\ last_call.ret # <<>>
    /\ \/ /\ dimensionality = 2
          /\ last_call.op = "triangulation" /\ prev_call.op = "tetrahedra"
          /\ last_update_n_cell_step = last_call.n_cell_step
       \/ /\ dimensionality = 3
          /\ last_call.op = "tetrahedra" /\ prev_call.op = "triangulation"
          /\ last_update_n_cell_step = last_call.n_cell_step

\* ---- C30 -----------------------------------------------------------------
\* The filter of get_filter(..., inverted = false) accepts a site exactly when
\* the site meets every enabled cutoff: |x - px| < r_cut_rectangular[0] and
\* likewise for y and z, distance from the axis through the position below
\* r_cut_cylindrical, distance from the position below r_cut_spherical, each
\* comparison strict, a cutoff below 0 not counting.  The filter of
\* get_filter(..., inverted = true) accepts exactly the sites the filter
\* built from the same arguments with inverted = false rejects.
C30_Offset == VSub(filter_call.spin_pos, filter_call.position)

C30_MeetsEveryEnabledCutoff ==
    /\ \A d \in 1..3 :
           filter_call.r_cut_rectangular[d] >= 0 =>
               Abs(C30_Offset[d]) < filter_call.r_cut_rectangular[d]
    /\ filter_call.r_cut_cylindrical >= 0 =>
           C30_Offset[1] * C30_Offset[1] + C30_Offset[2] * C30_Offset[2]
               < filter_call.r_cut_cylindrical * filter_call.r_cut_cylindrical
    /\ filter_call.r_cut_spherical >= 0 =>
           Dot3(C30_Offset, C30_Offset)
               < filter_call.r_cut_spherical * filter_call.r_cut_spherical

C30_FilterIsConjunctionOfCutoffs ==
    filter_call.op = "get_filter" =>
        /\ ~filter_call.inverted =>
              (filter_call.accepted <=> C30_MeetsEveryEnabledCutoff)
        /\ filter_call.inverted =>
              (filter_call.accepted <=>
                   ~FilterAccepts(
                       get_filter(filter_call.position, filter_call.r_cut_rectangular,
                                  filter_call.r_cut_cylindrical,
                                  filter_call.r_cut_spherical, FALSE),
                       filter_call.spin_pos))

\* an inverted filter accepting a site that lies exactly on the enabled
\* spherical cutoff, with the rectangular cutoff of x disabled
C30_Witness ==
    /\ filter_call.op = "get_filter"
    /\ filter_call.inverted /\ filter_call.accepted
    /\ filter_call.r_cut_rectangular[1] < 0
    /\ filter_call.r_cut_spherical > 0
    /\ Dot3(C30_Offset, C30_Offset)
           = filter_call.r_cut_spherical * filter_call.r_cut_spherical

====
